---- MODULE Spec2Model ----
(***************************************************************************)
(* Model of aibs-informatics-aws-utils: the tree partitioner of            *)
(* data_sync/file_system.py; the sync decision (should_sync), the local    *)
(* ETag reconstruction (get_local_etag with its retries,                   *)
(* determine_chunk_size), the transfers of files and objects,              *)
(* process_transfer_requests, sync_paths, move_s3_path and                 *)
(* update_s3_storage_class of s3.py; sync_data and the path lock of        *)
(* sync_s3_to_local of data_sync/operations.py; query_waiter of athena.py. *)
(***************************************************************************)
EXTENDS Integers, Sequences, FiniteSets, TLC

VARIABLES
    tree,        \* Node tree: path (sequence of segments) -> [size_bytes, object_count]
    part,        \* last partition call: [called, size_bytes_limit, object_count_limit, result]
    added,       \* the sizes handed to add_object so far, summed
    etag,        \* last get_local_etag call: [called, content, chunk_size_bytes, result]
    dcs,         \* determine_chunk_size call: [pc, file_size, default, chunk]
    source,      \* the artifact at the source path of should_sync
    destination, \* the artifact at the destination path of should_sync
    sync,        \* last should_sync call: [called, size_only, outcome, digests]
    xfer,        \* last transfer call: [called, op, force, size_only, extra_args,
                 \*   exist_ok, as_dir, dst_before, outcome]
    bucket,      \* the S3 bucket: key (a string, as a sequence of characters) -> object
    call,        \* last call on paths: [called, op, src, dst, delete, force, fail_at,
                 \*   raised, before, requests, suppress_errors, responses]
    disk,        \* the local file system: path (a string) -> file
    op,          \* last call of sync_data: [called, direction, retain_source_data,
                 \*   fail_if_missing, force, fail_at, again, outcome, bucket_before,
                 \*   disk_before]
    store,       \* the objects under one S3 path: key -> [storage_class, restore]
    sc,          \* last call of update_s3_storage_class: [called, s3_path, target,
                 \*   fail_at, result, failed_transitions, before,
                 \*   paths_to_restore, calls]
    read,        \* the call of get_local_etag under way, with its retries: [pc, size,
                 \*   chunk_size_bytes, tries, handles, pos, reads, failures]
    waiter,      \* the call of query_waiter under way: [pc, timeout, elapsed, polls,
                 \*   state, returned]
    lock         \* two calls of sync_s3_to_local with require_lock for one destination:
                 \*   [holder, pc, tries, writes]

treeVars == <<tree, part, added>>
etagVars == <<etag, dcs>>
syncVars == <<source, destination, sync>>
\* the state of the transfer and data sync operations
bucketVars == <<bucket, call>>
dataVars == <<disk, op>>
classVars == <<store, sc>>
\* the state of the calls modelled step by step
procVars == <<read, waiter, lock>>
opsVars == <<xfer, bucketVars, dataVars, classVars, procVars>>
vars == <<tree, part, added, etag, dcs, source, destination, sync, xfer, bucket, call,
          disk, op, store, sc, read, waiter, lock>>

(***************************************************************************)
(* Bounds                                                                  *)
(***************************************************************************)
MaxDepth == 2          \* longest object key, in path segments
MaxObjects == 3        \* most objects added to one tree
MaxSize == 1           \* largest size of one object, in bytes
MaxLimit == 2          \* largest size / count limit handed to partition
MaxFileLen == 3        \* longest file content, in bytes
MaxChunk == 3          \* largest chunk size handed to get_local_etag
MaxDoublings == 2      \* file sizes reach the part limit at default * 2^MaxDoublings
MaxSec == 1            \* latest modification time, in seconds
MaxBucket == 3         \* most objects put into the bucket
MaxFiles == 2          \* most files and objects there are before a data sync
MaxStored == 2         \* most objects there are before a storage class update
MaxRequests == 2       \* most requests handed to process_transfer_requests
MaxTries == 2          \* the tries of a retried call
MaxTimeout == 1        \* longest timeout of query_waiter, in seconds
MaxLockTries == 2      \* the tries to take the path lock (MAX_LOCK_WAIT_TIME_IN_SECS // 5)

Segments == {"A", "B"}

\* Optional[int]: None, or an integer
None == [has |-> FALSE, val |-> 0]
Some(v) == [has |-> TRUE, val |-> v]

Min(a, b) == IF a <= b THEN a ELSE b

(***************************************************************************)
(* Tree Node                                                               *)
(***************************************************************************)
\* every key an object can be added under: 1..MaxDepth segments
Keys == UNION {[1..n -> Segments] : n \in 1..MaxDepth}

Root == <<>>

IsPrefix(p, q) == Len(p) <= Len(q) /\ SubSeq(q, 1, Len(p)) = p

\* Node.children: the nodes one segment below n
Children(t, n) == {c \in DOMAIN t : Len(c) = Len(n) + 1 /\ IsPrefix(n, c)}

\* a leaf is a node without children
IsLeaf(t, n) == Children(t, n) = {}

\* the leaves in the subtree of n
LeavesUnder(t, n) == {l \in DOMAIN t : IsLeaf(t, l) /\ IsPrefix(n, l)}

\* Node.depth: the number of path segments from the root
Depth(n) == Len(n)

\* variant: the size is recorded at the object only, the count at every node
AddObjectToSkipAncestors(t, key, size) ==
    [n \in DOMAIN t \cup {SubSeq(key, 1, i) : i \in 0..Len(key)} |->
        IF IsPrefix(n, key)
        THEN IF n \in DOMAIN t
             THEN [size_bytes |-> t[n].size_bytes,
                   object_count |-> t[n].object_count + 1]
             ELSE [size_bytes |-> IF n = key THEN size ELSE 0, object_count |-> 1]
        ELSE t[n]]

\* Node.add_object(key, size_bytes): every node from the root down to the
\* object gains the object's size and one object; missing nodes are created
AddObjectTo(t, key, size) ==
    [n \in DOMAIN t \cup {SubSeq(key, 1, i) : i \in 0..Len(key)} |->
        IF IsPrefix(n, key)
        THEN IF n \in DOMAIN t
             THEN [size_bytes |-> t[n].size_bytes + size,
                   object_count |-> t[n].object_count + 1]
             ELSE [size_bytes |-> size, object_count |-> 1]
        ELSE t[n]]

\* Node(path): a root without children
EmptyTree == [n \in {Root} |-> [size_bytes |-> 0, object_count |-> 0]]

\* no partition call yet
NoCall == [called |-> FALSE, size_bytes_limit |-> None,
           object_count_limit |-> None, result |-> {}]

(***************************************************************************)
(* Tree Partitioner                                                        *)
(***************************************************************************)
\* variant: within either limit instead of both
IsCompliantAnyLimit(t, n, sl, cl) ==
    \/ sl.has /\ t[n].size_bytes <= sl.val
    \/ cl.has /\ t[n].object_count <= cl.val
    \/ ~sl.has /\ ~cl.has

\* variant: strictly below the limits
IsCompliantStrict(t, n, sl, cl) ==
    /\ (~sl.has \/ t[n].size_bytes < sl.val)
    /\ (~cl.has \/ t[n].object_count < cl.val)

\* a node within both limits, each limit counting only when it is given
IsCompliant(t, n, sl, cl) ==
    /\ (~sl.has \/ t[n].size_bytes <= sl.val)
    /\ (~cl.has \/ t[n].object_count <= cl.val)

\* variant: an oversized leaf is left out
RECURSIVE PartitionDropOversized(_, _, _, _)
PartitionDropOversized(t, n, sl, cl) ==
    IF IsCompliant(t, n, sl, cl) THEN {n}
    ELSE UNION {PartitionDropOversized(t, c, sl, cl) : c \in Children(t, n)}

\* variant: with any limit given, always split down to the leaves
RECURSIVE PartitionToLeaves(_, _, _, _)
PartitionToLeaves(t, n, sl, cl) ==
    IF (~sl.has /\ ~cl.has) \/ IsLeaf(t, n) THEN {n}
    ELSE UNION {PartitionToLeaves(t, c, sl, cl) : c \in Children(t, n)}

\* variant: a split node stays in the result
RECURSIVE PartitionKeepParent(_, _, _, _)
PartitionKeepParent(t, n, sl, cl) ==
    IF IsCompliant(t, n, sl, cl) \/ IsLeaf(t, n) THEN {n}
    ELSE {n} \cup UNION {PartitionKeepParent(t, c, sl, cl) : c \in Children(t, n)}

\* partition(size_bytes_limit, object_count_limit) from node n: depth-first,
\* a compliant node or a leaf is one member, any other node is split into
\* the partitions of its children
RECURSIVE Partition(_, _, _, _)
Partition(t, n, sl, cl) ==
    IF IsCompliant(t, n, sl, cl) \/ IsLeaf(t, n) THEN {n}
    ELSE UNION {Partition(t, c, sl, cl) : c \in Children(t, n)}

(***************************************************************************)
(* Local ETag reconstruction (s3.py)                                       *)
(***************************************************************************)
AWS_S3_MULTIPART_LIMIT == 10000
DefaultChunkSizeBytes == 8388608

Bytes == {0, 1}
\* file contents of 0..MaxFileLen bytes
Contents == UNION {[1..n -> Bytes] : n \in 0..MaxFileLen}

\* hashlib.md5(data).digest(): an MD5 without collisions, the digest of s is
\* the marker 2, the length of s and s; digests are told from file bytes
\* by the marker and one digest ends where its length says
md5(s) == <<2, Len(s)>> \o s

\* the ETag string '"<hexdigest>"' (parts = 0) or '"<hexdigest>-<parts>"'
ETagPlain(digest) == [hex |-> digest, parts |-> 0]
ETagMultipart(digest, n) == [hex |-> digest, parts |-> n]

\* math.ceil(a / b) for a >= 0, b > 0
CeilDiv(a, b) == (a \div b) + (IF a % b = 0 THEN 0 ELSE 1)

\* variant: doubling already at the part limit
TooManyPartsAtLimit(file_size, chunk) == CeilDiv(file_size, chunk) >= AWS_S3_MULTIPART_LIMIT

\* the loop condition of determine_chunk_size
TooManyParts(file_size, chunk) == CeilDiv(file_size, chunk) > AWS_S3_MULTIPART_LIMIT

\* variant: a loop body that leaves the chunk size as it is
NotDoubled(chunk) == chunk

\* the loop body of determine_chunk_size
Doubled(chunk) == chunk * 2

\* determine_chunk_size(path, default_chunk_size_bytes), from the current chunk size
RECURSIVE DetermineChunkSize(_, _)
DetermineChunkSize(file_size, chunk) ==
    IF TooManyParts(file_size, chunk)
    THEN DetermineChunkSize(file_size, Doubled(chunk))
    ELSE chunk

\* the read loop of get_local_etag: fp.read(chunk) from position pos until
\* it returns no data; one md5 per chunk read
RECURSIVE ReadChunks(_, _, _)
ReadChunks(content, pos, chunk) ==
    LET data == SubSeq(content, pos + 1, Min(pos + chunk, Len(content)))
    IN  IF data = <<>> THEN <<>>
        ELSE <<md5(data)>> \o ReadChunks(content, pos + Len(data), chunk)

\* b"".join(m.digest() for m in md5s)
RECURSIVE JoinDigests(_)
JoinDigests(md5s) ==
    IF md5s = <<>> THEN <<>> ELSE Head(md5s) \o JoinDigests(Tail(md5s))

\* variant: the multipart format for a single chunk too
FormatETagAlwaysMultipart(md5s) ==
    IF Len(md5s) >= 1 THEN ETagMultipart(md5(JoinDigests(md5s)), Len(md5s))
    ELSE ETagPlain(md5(<<>>))

\* the formatting at the end of get_local_etag
FormatETag(md5s) ==
    IF Len(md5s) > 1 THEN ETagMultipart(md5(JoinDigests(md5s)), Len(md5s))
    ELSE IF Len(md5s) = 1 THEN ETagPlain(md5s[1])
    ELSE ETagPlain(md5(<<>>))

\* get_local_etag(path, chunk_size_bytes) for a file of the given content
GetLocalETag(content, chunk_size_bytes) ==
    LET chunk == IF chunk_size_bytes.has THEN chunk_size_bytes.val
                 ELSE DetermineChunkSize(Len(content), DefaultChunkSizeBytes)
    IN  FormatETag(ReadChunks(content, 0, chunk))

NoEtagCall == [called |-> FALSE, content |-> <<>>, chunk_size_bytes |-> None,
               result |-> ETagPlain(<<>>)]
NoDcsCall == [pc |-> "idle", file_size |-> 0, default |-> 0, chunk |-> 0]

(***************************************************************************)
(* Sync decision (s3.py)                                                   *)
(***************************************************************************)
\* a datetime: whole seconds and microseconds
Time(sec, micro) == [sec |-> sec, micro |-> micro]

\* a path with nothing at it: Path.exists() / is_object() is false
NoArtifact(kind) == [kind |-> kind, exists |-> FALSE, content |-> <<>>,
                     last_modified |-> Time(0, 0), upload |-> "none", part_size |-> 0,
                     metadata |-> "none"]

\* a local file: st_size, st_mtime (with a fraction of a second) and its bytes
LocalFile(content, mtime) == [kind |-> "local", exists |-> TRUE, content |-> content,
                              last_modified |-> mtime, upload |-> "none", part_size |-> 0,
                              metadata |-> "none"]

\* an S3 object: content_length, last_modified (whole seconds) and the ETag
\* S3 gave it, which depends on the way it was uploaded
S3Object(content, last_modified, upload) ==
    [kind |-> "s3", exists |-> TRUE, content |-> content,
     last_modified |-> last_modified, upload |-> upload,
     part_size |-> IF upload = "multipart" THEN DefaultChunkSizeBytes ELSE 0,
     metadata |-> "none"]

\* an S3 object uploaded with TransferConfig(multipart_threshold, multipart_chunksize):
\* a multipart upload in parts of part_size bytes
S3ObjectInParts(content, last_modified, part_size) ==
    [kind |-> "s3", exists |-> TRUE, content |-> content,
     last_modified |-> last_modified, upload |-> "multipart", part_size |-> part_size,
     metadata |-> "none"]

\* the parts of a multipart upload of a body of part_size bytes per part
S3Parts(content, part_size) ==
    [i \in 1..CeilDiv(Len(content), part_size) |->
        md5(SubSeq(content, (i - 1) * part_size + 1, Min(i * part_size, Len(content))))]

\* Object.e_tag: the MD5 of the body for an object put in one request; for a
\* multipart upload the MD5 of the parts' MD5s and the number of parts, also
\* when there is a single part
S3ETag(content, upload) ==
    IF upload = "multipart"
    THEN LET parts == S3Parts(content, DefaultChunkSizeBytes)
         IN  ETagMultipart(md5(JoinDigests(parts)), Len(parts))
    ELSE ETagPlain(md5(content))

\* Object.e_tag of a multipart upload in parts of part_size bytes
S3ETagOfParts(content, part_size) ==
    LET parts == S3Parts(content, part_size)
    IN  ETagMultipart(md5(JoinDigests(parts)), Len(parts))

\* st_size / content_length
SizeBytes(a) == Len(a.content)

\* variant: microseconds kept
NotTruncated(t) == t

\* datetime.replace(microsecond=0)
TruncateToSecond(t) == [t EXCEPT !.micro = 0]

\* variant: a >= b
LaterOrSame(a, b) == a.sec > b.sec \/ (a.sec = b.sec /\ a.micro >= b.micro)

\* a > b on datetimes
Later(a, b) == a.sec > b.sec \/ (a.sec = b.sec /\ a.micro > b.micro)

\* source_hash() / dest_hash(): e_tag of an object, get_local_etag of a file
ContentHash(a) ==
    IF a.kind = "s3"
    THEN IF a.upload = "multipart" THEN S3ETagOfParts(a.content, a.part_size)
         ELSE S3ETag(a.content, a.upload)
    ELSE GetLocalETag(a.content, None)

\* variant: the digests are compared whatever size_only is
ShouldSyncIgnoringSizeOnly(src, dst, size_only) ==
    IF ~dst.exists THEN "True"
    ELSE IF ~src.exists THEN "ValueError"
    ELSE IF SizeBytes(src) # SizeBytes(dst) THEN "True"
    ELSE IF Later(TruncateToSecond(src.last_modified),
                  TruncateToSecond(dst.last_modified)) THEN "True"
    ELSE IF ContentHash(src) # ContentHash(dst) THEN "True"
    ELSE "False"

\* should_sync(source_path, destination_path, size_only): "True" or "False"
\* returned, or the ValueError raised
ShouldSync(src, dst, size_only) ==
    IF ~dst.exists THEN "True"
    ELSE IF ~src.exists THEN "ValueError"
    ELSE IF SizeBytes(src) # SizeBytes(dst) THEN "True"
    ELSE IF Later(TruncateToSecond(src.last_modified),
                  TruncateToSecond(dst.last_modified)) THEN "True"
    ELSE IF ~size_only /\ ContentHash(src) # ContentHash(dst) THEN "True"
    ELSE "False"

\* variant: the digest of a local file is computed where its hash function is
\* made
LocalDigestsEager(src, dst, size_only) ==
    IF size_only THEN {}
    ELSE (IF dst.exists /\ dst.kind = "local" THEN {"destination"} ELSE {})
         \cup (IF dst.exists /\ src.exists /\ src.kind = "local" THEN {"source"} ELSE {})

\* the local files should_sync calls get_local_etag for: source_hash and
\* dest_hash are functions, called in the last comparison only, both of them
\* (the hash of an object is its e_tag, read and not computed)
LocalDigests(src, dst, size_only) ==
    IF ~dst.exists \/ ~src.exists THEN {}
    ELSE IF SizeBytes(src) # SizeBytes(dst) THEN {}
    ELSE IF Later(TruncateToSecond(src.last_modified),
                  TruncateToSecond(dst.last_modified)) THEN {}
    ELSE IF size_only THEN {}
    ELSE (IF src.kind = "local" THEN {"source"} ELSE {})
         \cup (IF dst.kind = "local" THEN {"destination"} ELSE {})

NoSyncCall == [called |-> FALSE, size_only |-> FALSE, outcome |-> "none", digests |-> {}]

(***************************************************************************)
(* Reading a local file for its digest, with retries (s3.py)               *)
(***************************************************************************)
\* @retry(OSError): the exceptions after which the call is made again, OSError
\* and its subclasses; "OSError" stands for a transient condition of the
\* operating system (too many open files, an interrupted read)
Retryable(error) == error \in {"OSError", "FileNotFoundError", "PermissionError"}

\* variant: the file is left open at the end of the block
ExitWithLeak(handles) == handles

\* the end of `with open(path, "rb") as fp:`, reached by break or by an
\* exception: fp is closed
ExitWith(handles) == handles - 1

\* no call of get_local_etag, of query_waiter or of sync_s3_to_local under
\* way, the path lock of the destination free
InitProcesses ==
    /\ read = [pc |-> "idle", size |-> 0, chunk_size_bytes |-> 1, tries |-> 0,
               handles |-> 0, pos |-> 0, reads |-> <<>>, failures |-> <<>>]
    /\ waiter = [pc |-> "idle", timeout |-> 0, elapsed |-> 0, polls |-> 0,
                 state |-> "none", returned |-> "none"]
    /\ lock = [holder |-> 0, pc |-> [p \in 1..2 |-> "idle"], tries |-> [p \in 1..2 |-> 0],
               writes |-> {}]

(***************************************************************************)
(* Waiting for a query (athena.py)                                         *)
(***************************************************************************)
\* the time.sleep(0.2) of a second that make one second
SleepsPerSecond == 5

\* variant: the time is never up
TimedOutNever(elapsed, timeout) == FALSE

\* time.time() > start + timeout, the time since start counted in the 0.2 s
\* of a sleep
TimedOut(elapsed, timeout) == elapsed > timeout * SleepsPerSecond

(***************************************************************************)
(* Transfers of one file or object (s3.py)                                 *)
(***************************************************************************)
\* ExtraArgs: none, or {"Metadata": {"foo": "bar"}}
ExtraArgs == {"none", "foo"}

NoXferCall == [called |-> FALSE, op |-> "none", force |-> FALSE, size_only |-> FALSE,
               extra_args |-> "none", exist_ok |-> FALSE, as_dir |-> FALSE,
               dst_before |-> NoArtifact("local"), outcome |-> "none"]

\* variant: the transfer is made only when forced
WantedOnlyForced(force, src, dst, size_only) ==
    IF force THEN "True" ELSE IF ShouldSync(src, dst, size_only) = "ValueError"
                              THEN "ValueError" ELSE "False"

\* variant: the transfer is made whenever should_sync does not raise
WantedAlways(force, src, dst, size_only) ==
    IF force THEN "True" ELSE IF ShouldSync(src, dst, size_only) = "ValueError"
                              THEN "ValueError" ELSE "True"

\* `force or should_sync(source_path, destination_path, size_only)`: should_sync
\* is not called when force is set
Wanted(force, src, dst, size_only) ==
    IF force THEN "True" ELSE ShouldSync(src, dst, size_only)

\* s3.copy(CopySource, Bucket, Key, ExtraArgs) at time t: the object written is
\* a copy made in one request; ExtraArgs with Metadata replace the metadata,
\* without them the source's metadata are copied
S3Copy(src, extra_args, t) ==
    [S3Object(src.content, t, "put") EXCEPT
        !.metadata = IF extra_args # "none" THEN extra_args ELSE src.metadata]

\* s3_client.upload_file(Filename, Bucket, Key, ExtraArgs, Config) at time t,
\* for a file below the multipart threshold of the default TransferConfig
S3Upload(src, extra_args, t) ==
    [S3Object(src.content, t, "put") EXCEPT !.metadata = extra_args]

\* upload_file(local_path, s3_path, extra_args, force, size_only) at time t:
\* the outcome and the object at s3_path afterwards
UploadFileResult(src, dst, extra_args, force, size_only, t) ==
    LET wanted == Wanted(force, src, dst, size_only)
    IN  IF wanted = "True"
        THEN IF src.exists
             THEN [outcome |-> "transferred", dst |-> S3Upload(src, extra_args, t)]
             ELSE [outcome |-> "Error", dst |-> dst]
        ELSE IF wanted = "ValueError" THEN [outcome |-> "ValueError", dst |-> dst]
        ELSE IF extra_args # "none"
        THEN [outcome |-> "refreshed", dst |-> S3Copy(dst, extra_args, t)]
        ELSE [outcome |-> "skipped", dst |-> dst]

\* upload_path(local_path, s3_path, extra_args, force, size_only) for the file
\* src: local_path is src itself, or as_dir, a directory that holds src, the
\* object dst then being the one at the key of src below s3_path. The call for
\* a single file hands neither extra_args nor transfer_config on to upload_file
UploadPathResult(src, dst, as_dir, extra_args, force, size_only, t) ==
    IF as_dir THEN UploadFileResult(src, dst, extra_args, force, size_only, t)
    ELSE IF src.exists THEN UploadFileResult(src, dst, "none", force, size_only, t)
    ELSE [outcome |-> "ValueError", dst |-> dst]

\* copy_s3_object(source_path, destination_path, extra_args, force, size_only)
CopyS3ObjectResult(src, dst, extra_args, force, size_only, t) ==
    LET wanted == Wanted(force, src, dst, size_only)
    IN  IF wanted = "True"
        THEN IF src.exists
             THEN [outcome |-> "transferred", dst |-> S3Copy(src, extra_args, t)]
             ELSE [outcome |-> "Error", dst |-> dst]
        ELSE IF wanted = "ValueError" THEN [outcome |-> "ValueError", dst |-> dst]
        ELSE IF extra_args # "none"
        THEN [outcome |-> "refreshed", dst |-> S3Copy(dst, extra_args, t)]
        ELSE [outcome |-> "skipped", dst |-> dst]

\* download_s3_object(s3_path, local_path, exist_ok, force, size_only), the
\* local path being a file or nothing
DownloadS3ObjectResult(src, dst, exist_ok, force, size_only, t) ==
    LET wanted == Wanted(force, src, dst, size_only)
    IN  IF wanted = "True"
        THEN IF dst.exists /\ ~exist_ok THEN [outcome |-> "ValueError", dst |-> dst]
             ELSE IF src.exists
             THEN [outcome |-> "transferred", dst |-> LocalFile(src.content, t)]
             ELSE [outcome |-> "Error", dst |-> dst]
        ELSE IF wanted = "ValueError" THEN [outcome |-> "ValueError", dst |-> dst]
        ELSE [outcome |-> "skipped", dst |-> dst]

(***************************************************************************)
(* S3 paths: listing, sync, move (s3.py)                                   *)
(***************************************************************************)
\* the keys objects are put at: a source and a destination key, a key that
\* continues either as a string, and keys in the folder below either
KeyRoots == {<<"s">>, <<"d">>}
KeySuffixes == {<<>>, <<"x">>, <<"/", "a">>, <<"/", "a", "x">>}
BucketKeys == {r \o sfx : r \in KeyRoots, sfx \in KeySuffixes}

\* the contents of the objects in the bucket
BucketContents == {<<0>>, <<1>>}

\* the order of characters in a listing (UTF-8 binary order)
CharRank(ch) ==
    CASE ch = "/" -> 0 [] ch = "a" -> 1 [] ch = "d" -> 2 [] ch = "s" -> 3 [] ch = "x" -> 4

\* a < b on keys, as strings
RECURSIVE KeyLess(_, _)
KeyLess(a, b) ==
    IF b = <<>> THEN FALSE
    ELSE IF a = <<>> THEN TRUE
    ELSE IF Head(a) # Head(b) THEN CharRank(Head(a)) < CharRank(Head(b))
    ELSE KeyLess(Tail(a), Tail(b))

EmptyBucket == [k \in {} |-> NoArtifact("s3")]

\* the object at a key, or nothing
ObjectAt(b, k) == IF k \in DOMAIN b THEN b[k] ELSE NoArtifact("s3")

\* the bucket with object o at key k
WithObject(b, k, o) == [j \in DOMAIN b \cup {k} |-> IF j = k THEN o ELSE b[j]]

\* the bucket without the objects at the keys D
WithoutObjects(b, D) == [j \in DOMAIN b \ D |-> b[j]]

\* is_object(s3_path): head_object succeeds
IsObject(b, k) == k \in DOMAIN b

\* S3URI.key_with_folder_suffix
WithFolderSuffix(k) == IF k # <<>> /\ k[Len(k)] = "/" THEN k ELSE k \o <<"/">>

\* list_s3_paths(s3_path) without patterns: list_objects_v2(Prefix=s3_path.key),
\* every key that starts with the given key
ListS3Paths(b, prefix) == {k \in DOMAIN b : IsPrefix(prefix, k)}

\* S3URI(...): double slashes in the key are removed
RECURSIVE Sanitized(_)
Sanitized(k) ==
    IF Len(k) < 2 THEN k
    ELSE IF k[1] = "/" /\ k[2] = "/" THEN Sanitized(Tail(k))
    ELSE <<k[1]>> \o Sanitized(Tail(k))

\* generate_transfer_request: the destination of source key k, the source path
\* prefix being the key of the source path
DestinationKey(src, dst, k) == Sanitized(dst \o SubSeq(k, Len(src) + 1, Len(k)))

\* the source paths of sync_paths for an S3 source: the objects under the
\* source key as a folder, and the object at the source key
NestedSourcePaths(b, src) ==
    ListS3Paths(b, WithFolderSuffix(src)) \cup (IF IsObject(b, src) THEN {src} ELSE {})

\* the least key of a set, in listing order
FirstKey(K) == CHOOSE k \in K : \A j \in K : j = k \/ KeyLess(k, j)

\* process_transfer_requests for the copy requests of the keys K, in order,
\* errors not suppressed: the copy of fail_at raises, the copies before it are
\* made (when forced or should_sync)
RECURSIVE ProcessCopies(_, _, _, _, _, _)
ProcessCopies(b, K, src, dst, force, fail_at) ==
    IF K = {} THEN [bucket |-> b, raised |-> FALSE]
    ELSE LET k == FirstKey(K)
             dk == DestinationKey(src, dst, k)
             r == CopyS3ObjectResult(ObjectAt(b, k), ObjectAt(b, dk), "none",
                                     force, FALSE, Time(0, 0))
         IN  IF k = fail_at \/ r.outcome \in {"Error", "ValueError"}
             THEN [bucket |-> b, raised |-> TRUE]
             ELSE ProcessCopies(IF r.outcome = "skipped" THEN b ELSE WithObject(b, dk, r.dst),
                                K \ {k}, src, dst, force, fail_at)

\* variant: every response reports success
TransferResponseNeverFailed(request, failed) == [request |-> request, failed |-> FALSE]

\* S3TransferResponse(request, failed)
TransferResponse(request, failed) == [request |-> request, failed |-> failed]

\* process_transfer_requests(*transfer_requests, suppress_errors) for copy
\* requests [source_path, destination_path, force], one after the other:
\* transfer_responses is the list built so far, returned at the end; when a
\* transfer raises and errors are not suppressed the call raises, the list
\* being what the loop had appended
RECURSIVE ProcessTransferRequests(_, _, _, _)
ProcessTransferRequests(b, transfer_requests, suppress_errors, transfer_responses) ==
    IF transfer_requests = <<>>
    THEN [bucket |-> b, raised |-> FALSE, transfer_responses |-> transfer_responses]
    ELSE CHOOSE out \in
             {IF r.outcome \in {"Error", "ValueError"}
              THEN IF ~suppress_errors
                   THEN [bucket |-> b, raised |-> TRUE,
                         transfer_responses |-> transfer_responses]
                   ELSE ProcessTransferRequests(
                            b, Tail(transfer_requests), suppress_errors,
                            Append(transfer_responses,
                                   TransferResponse(Head(transfer_requests), TRUE)))
              ELSE ProcessTransferRequests(
                       IF r.outcome = "skipped" THEN b
                       ELSE WithObject(b, Head(transfer_requests).destination_path, r.dst),
                       Tail(transfer_requests), suppress_errors,
                       Append(transfer_responses,
                              TransferResponse(Head(transfer_requests), FALSE))) :
              r \in {CopyS3ObjectResult(
                         ObjectAt(b, Head(transfer_requests).source_path),
                         ObjectAt(b, Head(transfer_requests).destination_path),
                         "none", Head(transfer_requests).force, FALSE, Time(0, 0))}} : TRUE

\* the keys deleted by `for unexpected_path in unexpected_paths:
\* delete_s3_path(unexpected_path)`: delete_s3_path lists the keys that start
\* with the path and deletes them all
DeletedByPrefix(b, unexpected) == UNION {ListS3Paths(b, u) : u \in unexpected}

\* sync_paths(source_path, destination_path, force, delete) for S3 paths
SyncPaths(b, src, dst, force, delete, fail_at) ==
    LET nested == NestedSourcePaths(b, src)
        r == ProcessCopies(b, nested, src, dst, force, fail_at)
        expected == {DestinationKey(src, dst, k) : k \in nested}
        unexpected == ListS3Paths(r.bucket, dst) \ expected
    IN  IF r.raised THEN [bucket |-> r.bucket, raised |-> TRUE, responses |-> {}]
        ELSE [bucket |-> IF delete
                         THEN WithoutObjects(r.bucket, DeletedByPrefix(r.bucket, unexpected))
                         ELSE r.bucket,
              raised |-> FALSE, responses |-> nested]

\* variant: the source is deleted by its key as a prefix
MovedAwayByPrefix(b, src, responses) == ListS3Paths(b, src)

\* the keys move_s3_path deletes: the source paths of the responses that did
\* not fail
MovedAway(b, src, responses) == responses

\* move_s3_path(source_path, destination_path): sync_paths, then
\* delete_s3_objects of the sources copied
MoveS3Path(b, src, dst, fail_at) ==
    LET r == SyncPaths(b, src, dst, FALSE, FALSE, fail_at)
    IN  IF r.raised THEN [bucket |-> r.bucket, raised |-> TRUE]
        ELSE [bucket |-> WithoutObjects(r.bucket, MovedAway(r.bucket, src, r.responses)),
              raised |-> FALSE]

NoPathCall == [called |-> FALSE, op |-> "none", src |-> <<>>, dst |-> <<>>,
               delete |-> FALSE, force |-> FALSE, fail_at |-> <<>>,
               raised |-> FALSE, before |-> EmptyBucket, requests |-> <<>>,
               suppress_errors |-> FALSE, responses |-> <<>>]

(***************************************************************************)
(* Data sync (data_sync/operations.py)                                     *)
(***************************************************************************)
\* the paths of the files and objects of a data sync: the source path, a
\* path below it and one that only starts with it, the destination path and
\* two paths below it, one of which starts with the other
DataPaths == {<<"s">>, <<"s", "/", "a", "x">>, <<"s", "x">>,
              <<"d">>, <<"d", "/", "a">>, <<"d", "/", "a", "x">>}

\* is_folder(s3_path): is_object_prefix of the key with the folder suffix, an
\* object at that very key not counted (StartAfter)
IsFolder(b, k) ==
    \E j \in DOMAIN b : IsPrefix(WithFolderSuffix(k), j) /\ j # WithFolderSuffix(k)

\* find_paths(root, include_dirs=False) / find_all_paths(path, include_dirs=False):
\* the file at the path, or the files below the directory at the path
FilesUnder(d, root) == {p \in DOMAIN d : p = root \/ IsPrefix(WithFolderSuffix(root), p)}

\* process_transfer_requests for the upload requests (to_s3) or the download
\* requests of the paths K, in order, errors not suppressed. A download is
\* made with the default exist_ok=False; it raises as well when its local path
\* is a directory (should_sync sees another size) or lies below a file (mkdir)
\* (r is what the transfer of k does, computed once as the member of a set)
RECURSIVE ProcessTransfers(_, _, _, _, _, _, _, _, _)
ProcessTransfers(b, d, K, to_s3, src, dst, force, fail_at, t) ==
    IF K = {} THEN [bucket |-> b, disk |-> d, raised |-> FALSE]
    ELSE LET k == FirstKey(K)
             dk == DestinationKey(src, dst, k)
             blocked == /\ ~to_s3
                        /\ \E f \in DOMAIN d : \/ IsPrefix(WithFolderSuffix(dk), f)
                                               \/ IsPrefix(WithFolderSuffix(f), dk)
         IN  CHOOSE out \in
                 {IF k = fail_at \/ blocked \/ r.outcome \in {"Error", "ValueError"}
                  THEN [bucket |-> b, disk |-> d, raised |-> TRUE]
                  ELSE ProcessTransfers(
                           IF to_s3 /\ r.outcome # "skipped"
                           THEN WithObject(b, dk, r.dst) ELSE b,
                           IF ~to_s3 /\ r.outcome # "skipped"
                           THEN WithObject(d, dk, r.dst) ELSE d,
                           K \ {k}, to_s3, src, dst, force, fail_at, t) :
                  r \in {IF to_s3
                         THEN UploadFileResult(d[k], ObjectAt(b, dk), "none", force, FALSE, t)
                         ELSE DownloadS3ObjectResult(
                                  b[k], IF dk \in DOMAIN d THEN d[dk] ELSE NoArtifact("local"),
                                  FALSE, force, FALSE, t)}} : TRUE

\* sync_paths(source_path, destination_path, force, delete=True) from a local
\* path to an S3 path (to_s3) or from an S3 path to a local path
SyncPathsAcross(b, d, to_s3, src, dst, force, fail_at, t) ==
    LET nested == IF to_s3 THEN FilesUnder(d, src) ELSE NestedSourcePaths(b, src)
        expected == {DestinationKey(src, dst, k) : k \in nested}
    IN  CHOOSE out \in
            {IF r.raised THEN r
             ELSE IF to_s3
             THEN [r EXCEPT !.bucket = WithoutObjects(r.bucket,
                       DeletedByPrefix(r.bucket, ListS3Paths(r.bucket, dst) \ expected))]
             ELSE [r EXCEPT !.disk =
                       WithoutObjects(r.disk, FilesUnder(r.disk, dst) \ expected)] :
             r \in {ProcessTransfers(b, d, nested, to_s3, src, dst, force, fail_at, t)}} : TRUE

\* copy_path(source_path, destination_path, exists_ok=True): the files at or
\* below the source are written at or below the destination, over the files
\* that are there, the other files of the destination staying
CopyPath(d, src, dst) ==
    LET from == FilesUnder(d, src)
        to == {DestinationKey(src, dst, k) : k \in from}
    IN  [p \in DOMAIN d \cup to |->
            IF p \in to THEN d[CHOOSE k \in from : DestinationKey(src, dst, k) = p]
            ELSE d[p]]

\* variant: the modification times are left alone
RefreshNothing(d, path, min_mtime) == d

\* refresh_local_path__mtime(path, min_mtime)
RefreshLocalPathMtime(d, path, min_mtime) ==
    [p \in DOMAIN d |->
        IF p \in FilesUnder(d, path) /\ Later(min_mtime, d[p].last_modified)
        THEN [d[p] EXCEPT !.last_modified = min_mtime]
        ELSE d[p]]

\* what a sync does for a source that does not exist
MissingSource(b, d, fail_if_missing) ==
    [bucket |-> b, disk |-> d,
     outcome |-> IF fail_if_missing THEN "FileNotFoundError" ELSE "returned"]

\* sync_local_to_s3(source_path, destination_path)
SyncLocalToS3(b, d, src, dst, retain, fail_if_missing, force, fail_at, t) ==
    IF FilesUnder(d, src) = {} THEN MissingSource(b, d, fail_if_missing)
    ELSE CHOOSE out \in
             {IF r.raised THEN [bucket |-> r.bucket, disk |-> r.disk, outcome |-> "raised"]
              ELSE [bucket |-> r.bucket,
                    disk |-> IF retain THEN r.disk
                             ELSE WithoutObjects(r.disk, FilesUnder(r.disk, src)),
                    outcome |-> "returned"] :
              r \in {SyncPathsAcross(b, d, TRUE, src,
                                     IF src \in DOMAIN d THEN dst ELSE WithFolderSuffix(dst),
                                     force, fail_at, t)}} : TRUE

\* sync_s3_to_local(source_path, destination_path), no lock required: the
\* objects cannot be deleted, retain_source_data=False is only logged
SyncS3ToLocal(b, d, src, dst, retain, fail_if_missing, force, fail_at, start_time) ==
    IF ~IsObject(b, src) /\ ~IsFolder(b, src) THEN MissingSource(b, d, fail_if_missing)
    ELSE CHOOSE out \in
             {IF r.raised THEN [bucket |-> r.bucket, disk |-> r.disk, outcome |-> "raised"]
              ELSE [bucket |-> r.bucket,
                    disk |-> RefreshLocalPathMtime(r.disk, dst, start_time),
                    outcome |-> "returned"] :
              r \in {SyncPathsAcross(b, d, FALSE, src, dst, force, fail_at, start_time)}} : TRUE

\* variant: the source is not looked for
SyncLocalToLocalUnchecked(b, d, src, dst, retain, fail_if_missing, start_time) ==
    [bucket |-> b, disk |-> RefreshLocalPathMtime(CopyPath(d, src, dst), dst, start_time),
     outcome |-> "returned"]

\* sync_local_to_local(source_path, destination_path): copy_path, or
\* move_path, which leaves nothing at the source
SyncLocalToLocal(b, d, src, dst, retain, fail_if_missing, start_time) ==
    IF FilesUnder(d, src) = {} THEN MissingSource(b, d, fail_if_missing)
    ELSE LET copied == CopyPath(d, src, dst)
             moved == IF retain THEN copied ELSE WithoutObjects(copied, FilesUnder(d, src))
         IN  [bucket |-> b, disk |-> RefreshLocalPathMtime(moved, dst, start_time),
              outcome |-> "returned"]

\* sync_s3_to_s3(source_path, destination_path)
SyncS3ToS3(b, d, src, dst, retain, fail_if_missing, force, fail_at) ==
    IF ~IsObject(b, src) /\ ~IsFolder(b, src) THEN MissingSource(b, d, fail_if_missing)
    ELSE CHOOSE out \in
             {IF r.raised THEN [bucket |-> r.bucket, disk |-> d, outcome |-> "raised"]
              ELSE [bucket |-> IF retain THEN r.bucket
                               ELSE WithoutObjects(r.bucket, ListS3Paths(r.bucket, src)),
                    disk |-> d, outcome |-> "returned"] :
              r \in {SyncPaths(b, src, dst, force, TRUE, fail_at)}} : TRUE

\* DataSyncOperations.sync: the direction is given by the types of the paths
SyncData(b, d, direction, src, dst, retain, fail_if_missing, force, fail_at, start_time) ==
    CASE direction = "s3_to_s3" ->
            SyncS3ToS3(b, d, src, dst, retain, fail_if_missing, force, fail_at)
      [] direction = "s3_to_local" ->
            SyncS3ToLocal(b, d, src, dst, retain, fail_if_missing, force, fail_at, start_time)
      [] direction = "local_to_s3" ->
            SyncLocalToS3(b, d, src, dst, retain, fail_if_missing, force, fail_at, start_time)
      [] direction = "local_to_local" ->
            SyncLocalToLocal(b, d, src, dst, retain, fail_if_missing, start_time)

NoDataCall == [called |-> FALSE, direction |-> "none", src |-> <<>>, dst |-> <<>>,
               retain_source_data |-> TRUE, fail_if_missing |-> TRUE, force |-> FALSE,
               fail_at |-> <<>>, start_time |-> Time(0, 0), again |-> FALSE,
               outcome |-> "none", bucket_before |-> EmptyBucket,
               disk_before |-> EmptyBucket]

(***************************************************************************)
(* Storage classes (s3.py)                                                 *)
(***************************************************************************)
\* S3StorageClass.list_transitionable_storage_classes(), list_archive_storage_classes(),
\* and the storage classes of the objects, REDUCED_REDUNDANCY not supporting
\* transitions
Transitionable == {"STANDARD", "GLACIER"}
Archive == {"GLACIER"}
StorageClasses == Transitionable \cup {"REDUCED_REDUNDANCY"}

\* an object with its storage class and S3RestoreStatus
Stored(storage_class, restore) == [storage_class |-> storage_class, restore |-> restore]

\* step 1 of update_s3_storage_class over the paths K in order, acc holding the
\* objects and the lists built so far: the transition of an object is a copy
\* onto itself with the target StorageClass, and the copy of fail_at raises
\* ClientError
RECURSIVE StartTransitions(_, _, _, _)
StartTransitions(acc, K, target, fail_at) ==
    IF K = {} \/ acc.raised THEN acc
    ELSE LET p == FirstKey(K)
             o == acc.store[p]
             run == \/ o.storage_class \in Archive /\ o.restore = "FINISHED"
                    \/ o.storage_class \notin Archive /\ o.storage_class \in Transitionable
             next ==
                IF o.storage_class = target THEN acc
                ELSE IF o.storage_class \in Archive /\ o.restore = "NOT_STARTED"
                THEN [acc EXCEPT !.paths_to_restore = @ \cup {p}]
                ELSE IF o.storage_class \in Archive /\ o.restore = "IN_PROGRESS"
                THEN [acc EXCEPT !.paths_restoring = @ \cup {p}]
                ELSE IF ~run THEN [acc EXCEPT !.raised = TRUE]
                ELSE IF p = fail_at THEN [acc EXCEPT !.failed_transitions = @ \cup {p}]
                ELSE [acc EXCEPT !.store = WithObject(@, p, Stored(target, "NOT_STARTED"))]
         IN  StartTransitions(next, K \ {p}, target, fail_at)

\* variant: failed transitions do not count
ReturnedIgnoringFailures(acc) ==
    IF acc.paths_to_restore \cup acc.paths_restoring # {} THEN "False" ELSE "True"

\* step 3 of update_s3_storage_class: the value returned
Returned(acc) ==
    IF acc.paths_to_restore \cup acc.paths_restoring # {} THEN "False"
    ELSE IF acc.failed_transitions # {} THEN "False"
    ELSE "True"

\* update_s3_storage_class(s3_path, target_storage_class): the objects
\* afterwards, what was returned or raised, the transitions that failed and
\* the objects restore_object was called for
UpdateS3StorageClass(st, s3_path, target, fail_at) ==
    IF target \notin Transitionable
    THEN [store |-> st, result |-> "RuntimeError", failed_transitions |-> {},
          paths_to_restore |-> {}]
    ELSE CHOOSE out \in
             {IF acc.raised
              THEN [store |-> acc.store, result |-> "RuntimeError",
                    failed_transitions |-> acc.failed_transitions,
                    paths_to_restore |-> {}]
              ELSE [store |-> [k \in DOMAIN acc.store |->
                                  IF k \in acc.paths_to_restore
                                  THEN Stored(acc.store[k].storage_class, "IN_PROGRESS")
                                  ELSE acc.store[k]],
                    result |-> Returned(acc),
                    failed_transitions |-> acc.failed_transitions,
                    paths_to_restore |-> acc.paths_to_restore] :
              acc \in {StartTransitions([store |-> st, paths_to_restore |-> {},
                                         paths_restoring |-> {}, failed_transitions |-> {},
                                         raised |-> FALSE],
                                        ListS3Paths(st, s3_path), target, fail_at)}} : TRUE

NoClassCall == [called |-> FALSE, s3_path |-> <<>>, target |-> "none", fail_at |-> <<>>,
                result |-> "none", failed_transitions |-> {}, before |-> EmptyBucket,
                paths_to_restore |-> {}, calls |-> 0]

(***************************************************************************)
(* Operations on the tree                                                  *)
(***************************************************************************)
InitTree ==
    /\ tree = EmptyTree
    /\ part = NoCall
    /\ added = 0
    /\ disk = EmptyBucket
    /\ op = NoDataCall
    /\ store = EmptyBucket
    /\ sc = NoClassCall
    /\ InitProcesses
    /\ etag = NoEtagCall
    /\ dcs = NoDcsCall
    /\ source = NoArtifact("local")
    /\ destination = NoArtifact("local")
    /\ sync = NoSyncCall
    /\ xfer = NoXferCall
    /\ bucket = EmptyBucket
    /\ call = NoPathCall

\* the adapter enumerates one more object: a file is no directory, and a
\* directory is no file, so the key is new and lies under no object
AddObject ==
    /\ ~part.called
    /\ \E key \in Keys, size \in 0..MaxSize :
        /\ tree[Root].object_count < MaxObjects
        /\ key \notin DOMAIN tree
        /\ \A l \in DOMAIN tree : (l # Root /\ IsLeaf(tree, l)) => ~IsPrefix(l, key)
        /\ tree' = AddObjectTo(tree, key, size)
        /\ added' = added + size
    /\ UNCHANGED <<part, etagVars, syncVars, opsVars>>

Limits == {None} \cup {Some(v) : v \in 0..MaxLimit}

\* root.partition(size_bytes_limit, object_count_limit)
PartitionRoot ==
    /\ ~part.called
    /\ \E sl \in Limits, cl \in Limits :
        part' = [called |-> TRUE, size_bytes_limit |-> sl,
                 object_count_limit |-> cl,
                 result |-> Partition(tree, Root, sl, cl)]
    /\ UNCHANGED <<tree, added, etagVars, syncVars, opsVars>>

NextTree == AddObject \/ PartitionRoot

TreeSpec == InitTree /\ [][NextTree]_vars

(***************************************************************************)
(* Operations on local files                                               *)
(***************************************************************************)
InitEtag ==
    /\ etag = NoEtagCall
    /\ dcs = NoDcsCall
    /\ source = NoArtifact("local")
    /\ destination = NoArtifact("local")
    /\ sync = NoSyncCall
    /\ xfer = NoXferCall
    /\ bucket = EmptyBucket
    /\ call = NoPathCall
    /\ tree = EmptyTree
    /\ part = NoCall
    /\ added = 0
    /\ disk = EmptyBucket
    /\ op = NoDataCall
    /\ store = EmptyBucket
    /\ sc = NoClassCall
    /\ InitProcesses
    /\ source = NoArtifact("local")
    /\ destination = NoArtifact("local")
    /\ sync = NoSyncCall

ChunkSizes == {None} \cup {Some(c) : c \in 1..MaxChunk}

\* get_local_etag(path, chunk_size_bytes)
GetLocalETagCall ==
    /\ \E content \in Contents, cs \in ChunkSizes :
        etag' = [called |-> TRUE, content |-> content, chunk_size_bytes |-> cs,
                 result |-> GetLocalETag(content, cs)]
    /\ UNCHANGED <<dcs, treeVars, syncVars, opsVars>>

Pow2(k) == 2 ^ k

\* the default chunk sizes and the file sizes determine_chunk_size is called
\* with: small defaults with file sizes around each doubling of the part
\* limit, and the 8 MiB default with the file sizes a 32-bit integer holds
SmallDefaults == {1, 3}
FileSizesFor(d) ==
    IF d = DefaultChunkSizeBytes
    THEN {0, 1, d - 1, d, d + 1, 2 * d + 1, 2147483647}
    ELSE {0, 1} \cup {AWS_S3_MULTIPART_LIMIT * d * Pow2(j) + e :
                        j \in 0..MaxDoublings, e \in {-1, 0, 1}}

\* determine_chunk_size: entry, file_size = path.stat().st_size
DcsCall ==
    /\ dcs.pc \in {"idle", "done"}
    /\ \E d \in SmallDefaults \cup {DefaultChunkSizeBytes} :
        \E fs \in FileSizesFor(d) :
            dcs' = [pc |-> "loop", file_size |-> fs, default |-> d, chunk |-> d]
    /\ UNCHANGED <<etag, treeVars, syncVars, opsVars>>

\* determine_chunk_size: one pass of the while loop
DcsDouble ==
    /\ dcs.pc = "loop"
    /\ TooManyParts(dcs.file_size, dcs.chunk)
    /\ dcs' = [dcs EXCEPT !.chunk = Doubled(dcs.chunk)]
    /\ UNCHANGED <<etag, treeVars, syncVars, opsVars>>

\* determine_chunk_size: the loop condition fails, return
DcsReturn ==
    /\ dcs.pc = "loop"
    /\ ~TooManyParts(dcs.file_size, dcs.chunk)
    /\ dcs' = [dcs EXCEPT !.pc = "done"]
    /\ UNCHANGED <<etag, treeVars, syncVars, opsVars>>

NextEtag == GetLocalETagCall \/ DcsCall \/ DcsDouble \/ DcsReturn

EtagSpec == InitEtag /\ [][NextEtag]_vars

\* the loop of determine_chunk_size is not preempted: a pass that can run, runs
FairEtagSpec == EtagSpec /\ WF_vars(DcsDouble) /\ WF_vars(DcsReturn)

(***************************************************************************)
(* Operations on the source and the destination of a sync                  *)
(***************************************************************************)
InitSync ==
    /\ source = NoArtifact("local")
    /\ destination = NoArtifact("local")
    /\ sync = NoSyncCall
    /\ xfer = NoXferCall
    /\ bucket = EmptyBucket
    /\ call = NoPathCall
    /\ tree = EmptyTree
    /\ part = NoCall
    /\ added = 0
    /\ disk = EmptyBucket
    /\ op = NoDataCall
    /\ store = EmptyBucket
    /\ sc = NoClassCall
    /\ InitProcesses
    /\ etag = NoEtagCall
    /\ dcs = NoDcsCall

\* the contents of the files and objects that are compared
SyncContents == {c \in Contents : Len(c) < MaxFileLen}
Micros == {0, 500000}
LocalTimes == {Time(s, m) : s \in 0..MaxSec, m \in Micros}
S3Times == {Time(s, 0) : s \in 0..MaxSec}

\* either path is given a local file, an S3 object or nothing
SetPath(a) ==
    \/ source' = a /\ UNCHANGED destination
    \/ destination' = a /\ UNCHANGED source

\* a local file is written at one of the two paths
WriteLocalFile ==
    /\ ~sync.called
    /\ \E content \in SyncContents, t \in LocalTimes : SetPath(LocalFile(content, t))
    /\ UNCHANGED <<sync, treeVars, etagVars, opsVars>>

\* an object is put in one request at one of the two paths
PutObject ==
    /\ ~sync.called
    /\ \E content \in SyncContents, t \in S3Times : SetPath(S3Object(content, t, "put"))
    /\ UNCHANGED <<sync, treeVars, etagVars, opsVars>>

\* a body that is not empty is uploaded as a multipart upload of 8 MiB parts
\* at one of the two paths
MultipartUpload ==
    /\ ~sync.called
    /\ \E content \in SyncContents \ {<<>>}, t \in S3Times :
        SetPath(S3Object(content, t, "multipart"))
    /\ UNCHANGED <<sync, treeVars, etagVars, opsVars>>

\* the files uploaded with a custom TransferConfig: "0" * n, n > 0
ZeroContents == {c \in SyncContents \ {<<>>} : \A i \in 1..Len(c) : c[i] = 0}

\* the part sizes of uploads with a custom TransferConfig
CustomPartSizes == {1, 2}

\* a body that is not empty is uploaded as a multipart upload with a custom
\* multipart_chunksize at one of the two paths
MultipartUploadCustom ==
    /\ ~sync.called
    /\ \E content \in ZeroContents, t \in S3Times, ps \in CustomPartSizes :
        SetPath(S3ObjectInParts(content, t, ps))
    /\ UNCHANGED <<sync, treeVars, etagVars, opsVars>>

\* one of the two paths names an S3 key without an object
NoObject ==
    /\ ~sync.called
    /\ SetPath(NoArtifact("s3"))
    /\ UNCHANGED <<sync, treeVars, etagVars, opsVars>>

\* the local file at one of the two paths is removed
RemoveLocalFile ==
    /\ ~sync.called
    /\ SetPath(NoArtifact("local"))
    /\ UNCHANGED <<sync, treeVars, etagVars, opsVars>>

\* should_sync(source_path, destination_path, size_only)
ShouldSyncCall ==
    /\ ~sync.called
    /\ \E size_only \in BOOLEAN :
        sync' = [called |-> TRUE, size_only |-> size_only,
                 outcome |-> ShouldSync(source, destination, size_only),
                 digests |-> LocalDigests(source, destination, size_only)]
    /\ UNCHANGED <<source, destination, treeVars, etagVars, opsVars>>

NextSync ==
    \/ WriteLocalFile \/ PutObject \/ MultipartUpload \/ MultipartUploadCustom
    \/ NoObject \/ RemoveLocalFile \/ ShouldSyncCall

SyncSpec == InitSync /\ [][NextSync]_vars

(***************************************************************************)
(* Operations that transfer one file or object                             *)
(***************************************************************************)
\* the contents of the files and objects that are transferred
XferContents == {c \in Contents : Len(c) < MaxFileLen - 1}

\* a local path: nothing, or a file
XferLocalPaths ==
    {NoArtifact("local")} \cup {LocalFile(c, t) : c \in XferContents, t \in LocalTimes}

\* an S3 path: nothing, an object put in one request, or a multipart upload
XferS3Paths ==
    {NoArtifact("s3")}
        \cup {S3Object(c, t, "put") : c \in XferContents, t \in S3Times}
        \cup {S3Object(c, t, "multipart") : c \in XferContents \ {<<>>}, t \in S3Times}

\* a transfer is an upload (local to S3), a copy (S3 to S3) or a download
\* (S3 to local)
InitTransfer ==
    /\ \/ source \in XferLocalPaths /\ destination \in XferS3Paths
       \/ source \in XferS3Paths /\ destination \in XferS3Paths
       \/ source \in XferS3Paths /\ destination \in XferLocalPaths
    /\ xfer = NoXferCall
    /\ bucket = EmptyBucket
    /\ call = NoPathCall
    /\ sync = NoSyncCall
    /\ tree = EmptyTree
    /\ part = NoCall
    /\ added = 0
    /\ disk = EmptyBucket
    /\ op = NoDataCall
    /\ store = EmptyBucket
    /\ sc = NoClassCall
    /\ InitProcesses
    /\ etag = NoEtagCall
    /\ dcs = NoDcsCall

\* the times a write can be stamped with: not before the times on record
WriteTimes(kind) ==
    {t \in IF kind = "local" THEN LocalTimes ELSE S3Times :
        t.sec >= source.last_modified.sec /\ t.sec >= destination.last_modified.sec}

\* upload_file(local_path, s3_path, extra_args, None, force, size_only)
UploadFile ==
    /\ ~xfer.called
    /\ source.kind = "local" /\ destination.kind = "s3"
    /\ \E force \in BOOLEAN, size_only \in BOOLEAN, extra_args \in ExtraArgs,
          t \in WriteTimes("s3") :
        LET r == UploadFileResult(source, destination, extra_args, force, size_only, t)
        IN  /\ destination' = r.dst
            /\ xfer' = [called |-> TRUE, op |-> "upload_file", force |-> force,
                        size_only |-> size_only, extra_args |-> extra_args,
                        exist_ok |-> FALSE, as_dir |-> FALSE,
                        dst_before |-> destination, outcome |-> r.outcome]
    /\ UNCHANGED <<source, sync, treeVars, etagVars, bucketVars, dataVars, classVars, procVars>>

\* copy_s3_object(source_path, destination_path, extra_args, None, force, size_only)
CopyS3Object ==
    /\ ~xfer.called
    /\ source.kind = "s3" /\ destination.kind = "s3"
    /\ \E force \in BOOLEAN, size_only \in BOOLEAN, extra_args \in ExtraArgs,
          t \in WriteTimes("s3") :
        LET r == CopyS3ObjectResult(source, destination, extra_args, force, size_only, t)
        IN  /\ destination' = r.dst
            /\ xfer' = [called |-> TRUE, op |-> "copy_s3_object", force |-> force,
                        size_only |-> size_only, extra_args |-> extra_args,
                        exist_ok |-> FALSE, as_dir |-> FALSE,
                        dst_before |-> destination, outcome |-> r.outcome]
    /\ UNCHANGED <<source, sync, treeVars, etagVars, bucketVars, dataVars, classVars, procVars>>

\* download_s3_object(s3_path, local_path, exist_ok, None, force, size_only)
DownloadS3Object ==
    /\ ~xfer.called
    /\ source.kind = "s3" /\ destination.kind = "local"
    /\ \E force \in BOOLEAN, size_only \in BOOLEAN, exist_ok \in BOOLEAN,
          t \in WriteTimes("local") :
        LET r == DownloadS3ObjectResult(source, destination, exist_ok, force, size_only, t)
        IN  /\ destination' = r.dst
            /\ xfer' = [called |-> TRUE, op |-> "download_s3_object", force |-> force,
                        size_only |-> size_only, extra_args |-> "none",
                        exist_ok |-> exist_ok, as_dir |-> FALSE,
                        dst_before |-> destination, outcome |-> r.outcome]
    /\ UNCHANGED <<source, sync, treeVars, etagVars, bucketVars, dataVars, classVars, procVars>>

\* upload_path(local_path, s3_path, extra_args, None, force, size_only): the
\* source is the file local_path, or a file found in the directory local_path
UploadPath ==
    /\ ~xfer.called
    /\ source.kind = "local" /\ destination.kind = "s3"
    /\ \E force \in BOOLEAN, size_only \in BOOLEAN, extra_args \in ExtraArgs,
          as_dir \in BOOLEAN, t \in WriteTimes("s3") :
        /\ as_dir => source.exists
        /\ LET r == UploadPathResult(source, destination, as_dir, extra_args,
                                     force, size_only, t)
           IN  /\ destination' = r.dst
               /\ xfer' = [called |-> TRUE, op |-> "upload_path", force |-> force,
                           size_only |-> size_only, extra_args |-> extra_args,
                           exist_ok |-> FALSE, as_dir |-> as_dir,
                           dst_before |-> destination, outcome |-> r.outcome]
    /\ UNCHANGED <<source, sync, treeVars, etagVars, bucketVars, dataVars, classVars, procVars>>

NextTransfer == UploadFile \/ CopyS3Object \/ DownloadS3Object \/ UploadPath

TransferSpec == InitTransfer /\ [][NextTransfer]_vars

(***************************************************************************)
(* Operations on S3 paths                                                  *)
(***************************************************************************)
InitBucket ==
    /\ bucket = EmptyBucket
    /\ call = NoPathCall
    /\ xfer = NoXferCall
    /\ source = NoArtifact("local")
    /\ destination = NoArtifact("local")
    /\ sync = NoSyncCall
    /\ tree = EmptyTree
    /\ part = NoCall
    /\ added = 0
    /\ disk = EmptyBucket
    /\ op = NoDataCall
    /\ store = EmptyBucket
    /\ sc = NoClassCall
    /\ InitProcesses
    /\ etag = NoEtagCall
    /\ dcs = NoDcsCall

\* put_object(key, content)
PutBucketObject ==
    /\ ~call.called
    /\ Cardinality(DOMAIN bucket) < MaxBucket
    /\ \E k \in BucketKeys \ DOMAIN bucket, c \in BucketContents :
        bucket' = WithObject(bucket, k, S3Object(c, Time(0, 0), "put"))
    /\ UNCHANGED <<call, xfer, syncVars, treeVars, etagVars, dataVars, classVars, procVars>>

\* the paths handed to sync_paths and move_s3_path: a root key, with or
\* without the folder suffix
SourcePaths == {<<"s">>, <<"s", "/">>}
DestinationPaths == {<<"d">>, <<"d", "/">>}

\* the copy that raises, if any: a copy of one of the source objects
FailAt(src) == {<<>>} \cup NestedSourcePaths(bucket, src)

\* sync_paths(source_path, destination_path, force=..., delete=...)
SyncPathsCall ==
    /\ ~call.called
    /\ \E src \in SourcePaths, dst \in DestinationPaths, force \in BOOLEAN,
          delete \in BOOLEAN :
        \E fail_at \in FailAt(src) :
            LET r == SyncPaths(bucket, src, dst, force, delete, fail_at)
            IN  /\ bucket' = r.bucket
                /\ call' = [called |-> TRUE, op |-> "sync_paths", src |-> src, dst |-> dst,
                            delete |-> delete, force |-> force, fail_at |-> fail_at,
                            raised |-> r.raised, before |-> bucket, requests |-> <<>>,
                            suppress_errors |-> FALSE, responses |-> <<>>]
    /\ UNCHANGED <<xfer, syncVars, treeVars, etagVars, dataVars, classVars, procVars>>

\* move_s3_path(source_path, destination_path)
MoveS3PathCall ==
    /\ ~call.called
    /\ \E src \in SourcePaths, dst \in DestinationPaths :
        \E fail_at \in FailAt(src) :
            LET r == MoveS3Path(bucket, src, dst, fail_at)
            IN  /\ bucket' = r.bucket
                /\ call' = [called |-> TRUE, op |-> "move_s3_path", src |-> src, dst |-> dst,
                            delete |-> FALSE, force |-> FALSE, fail_at |-> fail_at,
                            raised |-> r.raised, before |-> bucket, requests |-> <<>>,
                            suppress_errors |-> FALSE, responses |-> <<>>]
    /\ UNCHANGED <<xfer, syncVars, treeVars, etagVars, dataVars, classVars, procVars>>

\* process_transfer_requests(*requests, suppress_errors=...) for up to
\* MaxRequests copy requests, all forced or none, of an object that may be
\* missing to a key that may be taken
ProcessTransferRequestsCall ==
    /\ ~call.called
    /\ \E n \in 0..MaxRequests, suppress_errors \in BOOLEAN, force \in BOOLEAN :
        \E requests \in [1..n -> [source_path : {<<"s">>, <<"s", "x">>},
                                  destination_path : {<<"d">>, <<"d", "x">>},
                                  force : {force}]] :
            \E r \in {ProcessTransferRequests(bucket, requests, suppress_errors, <<>>)} :
                /\ bucket' = r.bucket
                /\ call' = [called |-> TRUE, op |-> "process_transfer_requests",
                            src |-> <<>>, dst |-> <<>>, delete |-> FALSE, force |-> FALSE,
                            fail_at |-> <<>>, raised |-> r.raised, before |-> bucket,
                            requests |-> requests, suppress_errors |-> suppress_errors,
                            responses |-> r.transfer_responses]
    /\ UNCHANGED <<xfer, syncVars, treeVars, etagVars, dataVars, classVars, procVars>>

NextBucket ==
    PutBucketObject \/ SyncPathsCall \/ MoveS3PathCall \/ ProcessTransferRequestsCall

BucketSpec == InitBucket /\ [][NextBucket]_vars

(***************************************************************************)
(* Data sync operations                                                    *)
(***************************************************************************)
\* put_object(key, content), before the sync
PutDataObject ==
    /\ ~op.called
    /\ Cardinality(DOMAIN bucket) + Cardinality(DOMAIN disk) < MaxFiles
    /\ \E k \in DataPaths \ DOMAIN bucket, c \in BucketContents :
        bucket' = WithObject(bucket, k, S3Object(c, Time(0, 0), "put"))
    /\ UNCHANGED <<disk, op, call, xfer, syncVars, treeVars, etagVars, classVars, procVars>>

\* put_file(path, content), before the sync or long before it; no file is
\* put below a file or where a directory is
WriteDataFile ==
    /\ ~op.called
    /\ Cardinality(DOMAIN bucket) + Cardinality(DOMAIN disk) < MaxFiles
    /\ \E k \in DataPaths \ DOMAIN disk, c \in BucketContents,
          mtime \in {Time(0, 0), Time(MaxSec, 0)} :
        /\ \A f \in DOMAIN disk : /\ ~IsPrefix(WithFolderSuffix(f), k)
                                  /\ ~IsPrefix(WithFolderSuffix(k), f)
        /\ disk' = WithObject(disk, k, LocalFile(c, mtime))
    /\ UNCHANGED <<bucket, op, call, xfer, syncVars, treeVars, etagVars, classVars, procVars>>

\* the files and objects a sync in the given direction can meet: the source
\* path and the destination path are the only paths in use, each on its side;
\* copy_path is given a file for a file and a directory for a directory
InUse(direction, src, dst) ==
    LET at(side) == {k \in DataPaths : IsPrefix(side, k)}
    IN  /\ DOMAIN bucket \subseteq
               (IF direction \in {"s3_to_s3", "s3_to_local"} THEN at(src) ELSE {})
               \cup (IF direction \in {"s3_to_s3", "local_to_s3"} THEN at(dst) ELSE {})
        /\ DOMAIN disk \subseteq
               (IF direction \in {"local_to_s3", "local_to_local"} THEN at(src) ELSE {})
               \cup (IF direction \in {"s3_to_local", "local_to_local"} THEN at(dst) ELSE {})
        /\ direction = "local_to_local" /\ FilesUnder(disk, dst) # {}
               => (src \in DOMAIN disk <=> dst \in DOMAIN disk)

\* sync_data(source_path, destination_path, retain_source_data=...,
\* force=..., fail_if_missing=...), started at second 1; one of the transfers
\* of the sync may raise
SyncDataCall ==
    /\ ~op.called
    /\ \E direction \in {"s3_to_s3", "s3_to_local", "local_to_s3", "local_to_local"},
          retain \in BOOLEAN, fail_if_missing \in BOOLEAN, force \in BOOLEAN :
        LET src == <<"s">>
            dst == <<"d">>
            sources == IF direction \in {"s3_to_s3", "s3_to_local"}
                       THEN NestedSourcePaths(bucket, src)
                       ELSE IF direction = "local_to_s3" THEN FilesUnder(disk, src)
                       ELSE {}
        IN  /\ InUse(direction, src, dst)
            /\ \E fail_at \in {<<>>} \cup sources :
                \E r \in {SyncData(bucket, disk, direction, src, dst, retain,
                                   fail_if_missing, force, fail_at, Time(1, 0))} :
                    /\ bucket' = r.bucket
                    /\ disk' = r.disk
                    /\ op' = [called |-> TRUE, direction |-> direction, src |-> src,
                              dst |-> dst, retain_source_data |-> retain,
                              fail_if_missing |-> fail_if_missing, force |-> force,
                              fail_at |-> fail_at, start_time |-> Time(1, 0),
                              again |-> FALSE, outcome |-> r.outcome,
                              bucket_before |-> bucket, disk_before |-> disk]
    /\ UNCHANGED <<call, xfer, syncVars, treeVars, etagVars, classVars, procVars>>

\* the same sync_data call once more, after the first one returned and with
\* nothing changed in between; no transfer is made to raise
SyncDataAgain ==
    /\ op.called /\ ~op.again /\ op.outcome = "returned"
    /\ \E r \in {SyncData(bucket, disk, op.direction, op.src, op.dst,
                             op.retain_source_data, op.fail_if_missing, op.force, <<>>,
                             op.start_time)} :
           /\ bucket' = r.bucket
           /\ disk' = r.disk
           /\ op' = [op EXCEPT !.again = TRUE, !.outcome = r.outcome]
    /\ UNCHANGED <<call, xfer, syncVars, treeVars, etagVars, classVars, procVars>>

NextData == PutDataObject \/ WriteDataFile \/ SyncDataCall \/ SyncDataAgain

DataSyncSpec == InitBucket /\ [][NextData]_vars

(***************************************************************************)
(* Storage class operations                                                *)
(***************************************************************************)
\* put_object(key, content, StorageClass=...); an archived object is not being
\* restored, is being restored or has been restored
PutClassObject ==
    /\ ~sc.called
    /\ Cardinality(DOMAIN store) < MaxStored
    /\ \E k \in {<<"s">>, <<"s", "x">>, <<"s", "/", "a">>, <<"d">>} \ DOMAIN store,
          storage_class \in StorageClasses,
          restore \in {"NOT_STARTED", "IN_PROGRESS", "FINISHED"} :
        /\ storage_class \notin Archive => restore = "NOT_STARTED"
        /\ store' = WithObject(store, k, Stored(storage_class, restore))
    /\ UNCHANGED <<sc, xfer, bucketVars, dataVars, syncVars, treeVars, etagVars, procVars>>

\* update_s3_storage_class(s3_path, target_storage_class); one of the
\* transitions may fail
UpdateS3StorageClassCall ==
    /\ ~sc.called
    /\ \E s3_path \in SourcePaths, target \in StorageClasses :
        \E fail_at \in {<<>>} \cup ListS3Paths(store, s3_path) :
            \E r \in {UpdateS3StorageClass(store, s3_path, target, fail_at)} :
                /\ store' = r.store
                /\ sc' = [called |-> TRUE, s3_path |-> s3_path, target |-> target,
                          fail_at |-> fail_at, result |-> r.result,
                          failed_transitions |-> r.failed_transitions, before |-> store,
                          paths_to_restore |-> r.paths_to_restore, calls |-> 1]
    /\ UNCHANGED <<xfer, bucketVars, dataVars, syncVars, treeVars, etagVars, procVars>>

NextClass == PutClassObject \/ UpdateS3StorageClassCall

ClassSpec == InitBucket /\ [][NextClass]_vars

\* update_s3_storage_class is called again after it returned False, and every
\* transition it issues succeeds
UpdateAgain ==
    /\ sc.called /\ sc.result = "False"
    /\ \E r \in {UpdateS3StorageClass(store, sc.s3_path, sc.target, <<>>)} :
        /\ store' = r.store
        /\ sc' = [sc EXCEPT !.fail_at = <<>>, !.result = r.result,
                            !.failed_transitions = r.failed_transitions,
                            !.before = store, !.paths_to_restore = r.paths_to_restore,
                            !.calls = 2]
    /\ UNCHANGED <<xfer, bucketVars, dataVars, syncVars, treeVars, etagVars, procVars>>

\* it is called again after it returned False, and the transition of one of
\* the objects fails
UpdateAgainFailing ==
    /\ sc.called /\ sc.result = "False"
    /\ \E fail_at \in ListS3Paths(store, sc.s3_path) :
        \E r \in {UpdateS3StorageClass(store, sc.s3_path, sc.target, fail_at)} :
            /\ store' = r.store
            /\ sc' = [sc EXCEPT !.fail_at = fail_at, !.result = r.result,
                                !.failed_transitions = r.failed_transitions,
                                !.before = store,
                                !.paths_to_restore = r.paths_to_restore, !.calls = 2]
    /\ UNCHANGED <<xfer, bucketVars, dataVars, syncVars, treeVars, etagVars, procVars>>

\* S3 finishes the restore of an object, between two calls
RestoreFinishes ==
    /\ sc.called
    /\ \E k \in DOMAIN store :
        /\ store[k].restore = "IN_PROGRESS"
        /\ store' = WithObject(store, k, Stored(store[k].storage_class, "FINISHED"))
    /\ UNCHANGED <<sc, xfer, bucketVars, dataVars, syncVars, treeVars, etagVars, procVars>>

NextRestore ==
    \/ PutClassObject \/ UpdateS3StorageClassCall
    \/ UpdateAgain \/ UpdateAgainFailing \/ RestoreFinishes

\* the caller calls again each time False is returned, transitions succeed in
\* the end, and a restore that was started finishes
FairClassSpec ==
    InitBucket /\ [][NextRestore]_vars /\ WF_vars(UpdateAgain) /\ WF_vars(RestoreFinishes)

(***************************************************************************)
(* A call of get_local_etag, step by step                                  *)
(***************************************************************************)
\* get_local_etag(path, chunk_size_bytes) is called for a file of some size:
\* the first try
GetLocalEtagTry ==
    /\ read.pc = "idle"
    /\ \E size \in 0..MaxFileLen, chunk_size_bytes \in 1..MaxChunk :
        read' = [read EXCEPT !.pc = "open", !.size = size,
                             !.chunk_size_bytes = chunk_size_bytes, !.tries = 1]
    /\ UNCHANGED <<etag, dcs, waiter, lock, treeVars, syncVars, xfer, bucketVars, dataVars,
                   classVars>>

\* open(path, "rb"): a file handle, or an error when there is no file, the
\* file may not be read, or the process has too many files open
OpenFile ==
    /\ read.pc = "open"
    /\ \/ read' = [read EXCEPT !.pc = "read", !.handles = @ + 1, !.pos = 0, !.reads = <<>>]
       \/ \E error \in {"FileNotFoundError", "PermissionError", "OSError"} :
            read' = [read EXCEPT !.pc = "raised", !.reads = <<>>,
                                 !.failures = Append(@, [error |-> error, at |-> "open"])]
    /\ UNCHANGED <<etag, dcs, waiter, lock, treeVars, syncVars, xfer, bucketVars, dataVars,
                   classVars>>

\* data = fp.read(chunk_size_bytes) at the position of the file: the loop
\* goes on with data, ends with none, or the read or the hashing of the data
\* raises (hashlib.md5 raises ValueError where MD5 is disabled); the block is
\* left in the last two cases
ReadChunk ==
    /\ read.pc = "read"
    /\ \/ /\ read.pos < read.size
          /\ read' = [read EXCEPT
                        !.pos = Min(@ + read.chunk_size_bytes, read.size),
                        !.reads = Append(@, [from |-> read.pos,
                                             to |-> Min(read.pos + read.chunk_size_bytes,
                                                        read.size)])]
       \/ /\ read.pos = read.size
          /\ read' = [read EXCEPT !.pc = "returned", !.handles = ExitWith(@),
                                  !.reads = Append(@, [from |-> read.pos, to |-> read.pos])]
       \/ \E error \in {"OSError", "ValueError"} :
            read' = [read EXCEPT !.pc = "raised", !.handles = ExitWith(@),
                                 !.failures = Append(@, [error |-> error, at |-> "read"])]
    /\ UNCHANGED <<etag, dcs, waiter, lock, treeVars, syncVars, xfer, bucketVars, dataVars,
                   classVars>>

\* the retry decorator around get_local_etag: after an exception of a class
\* to retry, and with tries left, the function is called again; any other
\* exception, and the one of the last try, is raised to the caller
RetryOrRaise ==
    /\ read.pc = "raised"
    /\ read' = IF Retryable(read.failures[Len(read.failures)].error) /\ read.tries < MaxTries
               THEN [read EXCEPT !.pc = "open", !.tries = @ + 1]
               ELSE [read EXCEPT !.pc = "failed"]
    /\ UNCHANGED <<etag, dcs, waiter, lock, treeVars, syncVars, xfer, bucketVars, dataVars,
                   classVars>>

NextDigest == GetLocalEtagTry \/ OpenFile \/ ReadChunk \/ RetryOrRaise

DigestSpec == InitEtag /\ [][NextDigest]_vars

(***************************************************************************)
(* A call of query_waiter, step by step                                    *)
(***************************************************************************)
\* query_waiter(query_execution_id, timeout): start = time.time()
QueryWaiterCall ==
    /\ waiter.pc = "idle"
    /\ \E timeout \in 0..MaxTimeout :
        waiter' = [waiter EXCEPT !.pc = "poll", !.timeout = timeout]
    /\ UNCHANGED <<read, lock, etagVars, treeVars, syncVars, xfer, bucketVars, dataVars,
                   classVars>>

\* get_query_execution returns the status of the query, with the state the
\* query is in or with none; the state is returned when it is one of
\* SUCCEEDED, FAILED, CANCELLED
GetQueryExecution ==
    /\ waiter.pc = "poll"
    /\ \E state \in {"none", "QUEUED", "RUNNING", "SUCCEEDED", "FAILED", "CANCELLED"} :
        waiter' = IF state \in {"SUCCEEDED", "FAILED", "CANCELLED"}
                  THEN [waiter EXCEPT !.pc = "done", !.polls = @ + 1, !.state = state,
                                      !.returned = state]
                  ELSE [waiter EXCEPT !.pc = "sleep", !.polls = @ + 1, !.state = state]
    /\ UNCHANGED <<read, lock, etagVars, treeVars, syncVars, xfer, bucketVars, dataVars,
                   classVars>>

\* time.sleep(0.2), which takes its time or longer, and the test of the time
\* that has passed
SleepAndCheckTime ==
    /\ waiter.pc = "sleep"
    /\ \E slept \in 1..2 :
        waiter' = IF TimedOut(waiter.elapsed + slept, waiter.timeout)
                  THEN [waiter EXCEPT !.pc = "done", !.elapsed = @ + slept,
                                      !.returned = "TIMEOUT"]
                  ELSE [waiter EXCEPT !.pc = "poll", !.elapsed = @ + slept]
    /\ UNCHANGED <<read, lock, etagVars, treeVars, syncVars, xfer, bucketVars, dataVars,
                   classVars>>

NextWaiter == QueryWaiterCall \/ GetQueryExecution \/ SleepAndCheckTime

\* every poll returns, and so does every sleep
FairWaiterSpec ==
    InitEtag /\ [][NextWaiter]_vars /\ WF_vars(GetQueryExecution) /\ WF_vars(SleepAndCheckTime)

(***************************************************************************)
(* Two calls of sync_s3_to_local with require_lock, one destination        *)
(***************************************************************************)
\* sync_s3_to_local(source_path, destination_path) is called by caller p, the
\* source being there
SyncS3ToLocalLocked ==
    /\ \E p \in 1..2 :
        /\ lock.pc[p] = "idle"
        /\ lock' = [lock EXCEPT !.pc[p] = "acquire", !.tries[p] = 1]
    /\ UNCHANGED <<read, waiter, etagVars, treeVars, syncVars, xfer, bucketVars, dataVars,
                   classVars>>

\* `with PathLock(destination_path) as lock:` the lock is taken when it is
\* free; when it is held CannotAcquirePathLockError is raised, after which
\* the retry decorator calls sync_paths_with_lock again, or raises the error
\* when the tries are used up
AcquirePathLock ==
    /\ \E p \in 1..2 :
        /\ lock.pc[p] = "acquire"
        /\ lock' = IF lock.holder = 0
                   THEN [lock EXCEPT !.holder = p, !.pc[p] = "sync_paths"]
                   ELSE IF lock.tries[p] < MaxLockTries
                   THEN [lock EXCEPT !.tries[p] = @ + 1]
                   ELSE [lock EXCEPT !.pc[p] = "raised"]
    /\ UNCHANGED <<read, waiter, etagVars, treeVars, syncVars, xfer, bucketVars, dataVars,
                   classVars>>

\* sync_paths inside the block: files are transferred to the destination and
\* the files not expected there are removed
SyncPathsUnderLock ==
    /\ \E p \in 1..2 :
        /\ lock.pc[p] = "sync_paths"
        /\ \E kind \in {"transfer", "delete"} :
            lock' = [lock EXCEPT !.pc[p] = "leave",
                                 !.writes = @ \cup {[by |-> p, kind |-> kind,
                                                     holder |-> lock.holder]}]
    /\ UNCHANGED <<read, waiter, etagVars, treeVars, syncVars, xfer, bucketVars, dataVars,
                   classVars>>

\* the end of the with block, sync_paths having returned or raised: the lock
\* is released
ReleasePathLock ==
    /\ \E p \in 1..2 :
        /\ lock.pc[p] \in {"sync_paths", "leave"}
        /\ lock' = [lock EXCEPT !.holder = 0,
                                !.pc[p] = IF lock.pc[p] = "leave" THEN "refresh" ELSE "raised"]
    /\ UNCHANGED <<read, waiter, etagVars, treeVars, syncVars, xfer, bucketVars, dataVars,
                   classVars>>

\* refresh_local_path__mtime(destination_path, start_time), after
\* _sync_paths has returned
RefreshMtime ==
    /\ \E p \in 1..2 :
        /\ lock.pc[p] = "refresh"
        /\ lock' = [lock EXCEPT !.pc[p] = "returned",
                                !.writes = @ \cup {[by |-> p, kind |-> "refresh",
                                                    holder |-> lock.holder]}]
    /\ UNCHANGED <<read, waiter, etagVars, treeVars, syncVars, xfer, bucketVars, dataVars,
                   classVars>>

NextLock ==
    \/ SyncS3ToLocalLocked \/ AcquirePathLock \/ SyncPathsUnderLock
    \/ ReleasePathLock \/ RefreshMtime

LockSpec == InitBucket /\ [][NextLock]_vars

(***************************************************************************)
(* Claims about the partitioner                                            *)
(***************************************************************************)
Result == part.result
SizeLimit == part.size_bytes_limit
CountLimit == part.object_count_limit
\* the claims' notion of a compliant node, spelled out on the stored limits
Compliant(n) ==
    /\ (SizeLimit.has => tree[n].size_bytes <= SizeLimit.val)
    /\ (CountLimit.has => tree[n].object_count <= CountLimit.val)
\* the returned nodes whose subtree holds leaf l
CoveringNodes(S, l) == {n \in S : IsPrefix(n, l)}
\* a size and count that are the sums over the children, sizes not negative
RECURSIVE SumOver(_, _, _)
SumOver(t, S, field) ==
    IF S = {} THEN 0
    ELSE LET c == CHOOSE x \in S : TRUE
         IN  (IF field = "size_bytes" THEN t[c].size_bytes ELSE t[c].object_count)
             + SumOver(t, S \ {c}, field)
WellFormed(t) ==
    \A n \in DOMAIN t :
        /\ t[n].size_bytes >= 0
        /\ ~IsLeaf(t, n) =>
            /\ t[n].size_bytes = SumOver(t, Children(t, n), "size_bytes")
            /\ t[n].object_count = SumOver(t, Children(t, n), "object_count")

\* C1: the nodes partition returns cover every leaf of the root exactly once:
\* each leaf lies in the subtree of exactly one returned node, and no returned
\* node is an ancestor of another returned node.
C1_CoverExactlyOnce ==
    part.called =>
        /\ Result \subseteq DOMAIN tree
        /\ \A l \in LeavesUnder(tree, Root) : Cardinality(CoveringNodes(Result, l)) = 1
        /\ \A a, b \in Result : IsPrefix(a, b) => a = b

\* C1 witness: a partition at varying levels, a directory beside single leaves,
\* under a size limit and under a count limit
C1_Witness ==
    /\ part.called
    /\ SizeLimit.has /\ CountLimit.has
    /\ WellFormed(tree)
    /\ \E d \in Result : ~IsLeaf(tree, d) /\ d # Root
    /\ \E l \in Result : IsLeaf(tree, l) /\ Depth(l) = MaxDepth
    /\ Cardinality(Result) >= 3

\* C2: every returned node that has children satisfies every limit that was
\* given, the size limit and the count limit both.
C2_NonLeafCompliant ==
    part.called =>
        \A n \in Result : ~IsLeaf(tree, n) =>
            /\ (SizeLimit.has => tree[n].size_bytes <= SizeLimit.val)
            /\ (CountLimit.has => tree[n].object_count <= CountLimit.val)

\* C2 witness: both limits given; a directory within both is returned, while a
\* directory within one limit only was split
C2_Witness ==
    /\ part.called
    /\ SizeLimit.has /\ CountLimit.has
    /\ \E n \in Result : ~IsLeaf(tree, n)
    /\ \E m \in DOMAIN tree :
        /\ ~IsLeaf(tree, m) /\ m # Root /\ m \notin Result
        /\ tree[m].object_count <= CountLimit.val
        /\ tree[m].size_bytes > SizeLimit.val

\* C3: a compliant root is the whole partition, whatever lies below it; with
\* no limit at all the partition is the root.
C3_CompliantRootAlone ==
    (part.called /\ Compliant(Root)) => Result = {Root}

\* C3 witness: a root with directories below it that is within two given
\* limits, tighter limits being possible at the lower levels
C3_Witness ==
    /\ part.called
    /\ SizeLimit.has /\ CountLimit.has
    /\ Compliant(Root)
    /\ tree[Root].object_count >= 2
    /\ \E n \in DOMAIN tree : Depth(n) = 2
    /\ Result = {Root}

\* C4: an oversized leaf (its own size or count over a given limit) is
\* returned as a member of the partition; the call ends normally.
C4_OversizedLeafKept ==
    part.called =>
        \A l \in DOMAIN tree : (IsLeaf(tree, l) /\ ~Compliant(l)) => l \in Result

\* C4 witness: an oversized leaf next to a compliant directory cut
C4_Witness ==
    /\ part.called
    /\ \E l \in Result : IsLeaf(tree, l) /\ SizeLimit.has
                         /\ tree[l].size_bytes > SizeLimit.val
    /\ \E d \in Result : ~IsLeaf(tree, d) /\ Compliant(d)

\* every set of nodes that covers each leaf below n exactly once: n itself,
\* or one such set for each child of n
RECURSIVE CutsBelow(_, _), CutsOfAll(_, _)
CutsBelow(t, n) ==
    IF IsLeaf(t, n) THEN {{n}}
    ELSE {{n}} \cup CutsOfAll(t, Children(t, n))
CutsOfAll(t, C) ==
    IF C = {} THEN {{}}
    ELSE LET c == CHOOSE x \in C : TRUE
         IN  {a \cup b : a \in CutsBelow(t, c), b \in CutsOfAll(t, C \ {c})}

\* a set of nodes that covers every leaf once and whose non-leaf members
\* are compliant
ValidCut(S) ==
    /\ \A n \in S : ~IsLeaf(tree, n) => Compliant(n)
    /\ \A l \in LeavesUnder(tree, Root) : Cardinality(CoveringNodes(S, l)) = 1
    /\ \A a, b \in S : IsPrefix(a, b) => a = b

\* CutsBelow(tree, Root) is the set of covers, by enumeration of all node sets
CutsAreTheCovers ==
    CutsBelow(tree, Root) =
        {S \in SUBSET DOMAIN tree :
            /\ \A l \in LeavesUnder(tree, Root) : Cardinality(CoveringNodes(S, l)) = 1
            /\ \A a, b \in S : IsPrefix(a, b) => a = b}

\* C5: for a well-formed tree no valid cut has fewer members than the
\* partition returned.
C5_FewestNodes ==
    part.called =>
        \/ \A S \in CutsBelow(tree, Root) :
                Cardinality(S) < Cardinality(Result) =>
                    \E n \in S : ~IsLeaf(tree, n) /\ ~Compliant(n)
        \/ ~WellFormed(tree)

\* C5 witness: a partition of two directories where the cut at the leaves is
\* valid too and has more members
C5_Witness ==
    /\ part.called /\ WellFormed(tree)
    /\ Cardinality(Result) = 2
    /\ \A n \in Result : ~IsLeaf(tree, n)
    /\ ValidCut(LeavesUnder(tree, Root))
    /\ LeavesUnder(tree, Root) \in CutsBelow(tree, Root)
    /\ Cardinality(LeavesUnder(tree, Root)) > 2

C7_MissingSourceRaises ==
    (sync.called /\ ~source.exists) => sync.outcome = "ValueError"

\* C8: should_sync is False for an existing source and an existing destination
\* that is an identical copy of it (same size, same modification time to the
\* second, same content), for both values of size_only and every pairing of
\* local file and S3 object.
C8_IdenticalCopyNotSynced ==
    ( /\ sync.called
      /\ source.exists /\ destination.exists
      /\ source.content = destination.content
      /\ source.last_modified.sec = destination.last_modified.sec )
    => sync.outcome = "False"

\* C11: for a file uploaded as a multipart upload with a custom chunk size
\* (several parts, or a single part) should_sync with digests compared is
\* False between the local file and the object, in both directions, when the
\* source is not the later of the two.
C11_CustomMultipartNotSynced ==
    ( /\ sync.called /\ ~sync.size_only
      /\ source.exists /\ destination.exists
      /\ {source.kind, destination.kind} = {"local", "s3"}
      /\ \E a \in {source, destination} :
            a.upload = "multipart" /\ a.part_size \in CustomPartSizes
      /\ source.content = destination.content
      /\ source.last_modified.sec <= destination.last_modified.sec )
    => sync.outcome = "False"

(***************************************************************************)
(* Claims about transfers                                                  *)
(***************************************************************************)
\* should_sync(source, destination, size_only) on the state before the call
ShouldHaveSynced == ShouldSync(source, xfer.dst_before, xfer.size_only) = "True"
\* the destination after the call is what it was before it
Untouched == destination = xfer.dst_before
SingleTransferOps == {"upload_file", "copy_s3_object", "download_s3_object"}

\* C13 as stated: upload_file, copy_s3_object and download_s3_object transfer
\* the content of an existing source exactly when force is set or should_sync
\* is True, and leave the destination untouched otherwise when there are no
\* extra_args to apply.
C13_TransferIffShouldSync ==
    (xfer.called /\ xfer.op \in SingleTransferOps /\ source.exists) =>
        /\ xfer.outcome = "transferred" <=> (xfer.force \/ ShouldHaveSynced)
        /\ xfer.outcome = "transferred" =>
                destination.exists /\ destination.content = source.content
        /\ (xfer.outcome # "transferred" /\ xfer.extra_args = "none") => Untouched

\* C13 amended: as stated for upload_file and copy_s3_object; download_s3_object
\* transfers under the same condition only when the local path does not exist
\* or exist_ok is set, and otherwise raises ValueError and leaves the local
\* path untouched.
C13_TransferUnlessLocalPathExists ==
    (xfer.called /\ xfer.op \in SingleTransferOps /\ source.exists) =>
        LET refused == /\ xfer.op = "download_s3_object"
                       /\ xfer.dst_before.exists /\ ~xfer.exist_ok
                       /\ (xfer.force \/ ShouldHaveSynced)
        IN  /\ xfer.outcome = "transferred" <=>
                    ((xfer.force \/ ShouldHaveSynced) /\ ~refused)
            /\ xfer.outcome = "transferred" =>
                    destination.exists /\ destination.content = source.content
            /\ refused => (xfer.outcome = "ValueError" /\ Untouched)
            /\ (xfer.outcome # "transferred" /\ xfer.extra_args = "none") => Untouched

\* C13 witness: an unchanged local file uploaded again without force: the
\* object of the earlier upload, written after the file, is left as it is
C13_Witness ==
    /\ xfer.called /\ xfer.op = "upload_file" /\ ~xfer.force /\ ~xfer.size_only
    /\ source.exists /\ xfer.dst_before.exists
    /\ source.content = xfer.dst_before.content /\ source.content # <<>>
    /\ xfer.outcome = "skipped"
    /\ Untouched

\* C14: upload_path without force and with extra_args, to a destination that
\* is in sync with the local file, still applies the extra_args: afterwards
\* the object carries their metadata, for a single file as for a file in a
\* directory.
C14_ExtraArgsApplied ==
    ( /\ xfer.called /\ xfer.op = "upload_path"
      /\ ~xfer.force /\ xfer.extra_args # "none"
      /\ source.exists /\ xfer.dst_before.exists
      /\ ShouldSync(source, xfer.dst_before, xfer.size_only) = "False" )
    => destination.metadata = xfer.extra_args

(***************************************************************************)
(* Claims about S3 paths                                                   *)
(***************************************************************************)
\* the paths under a folder, relative to it
RelativePaths(b, folder) ==
    {SubSeq(k, Len(WithFolderSuffix(folder)) + 1, Len(k)) :
        k \in ListS3Paths(b, WithFolderSuffix(folder))}
\* source and destination are given as folders, with the folder suffix
FolderForm == call.src = WithFolderSuffix(call.src) /\ call.dst = WithFolderSuffix(call.dst)

\* C15: after sync_paths with delete for a source folder and a destination
\* folder the paths under the destination, relative to it, are the paths under
\* the source; without delete no destination object is deleted.
C15_DestinationMirrorsSource ==
    (call.called /\ call.op = "sync_paths" /\ ~call.raised /\ FolderForm) =>
        /\ call.delete =>
                RelativePaths(bucket, call.dst) = RelativePaths(bucket, call.src)
        /\ ~call.delete => DOMAIN call.before \subseteq DOMAIN bucket

\* the objects that belong to the source of the call: the object at the
\* source key and the objects in the folder of that key
Belonged ==
    {k \in DOMAIN call.before :
        k = call.src \/ IsPrefix(WithFolderSuffix(call.src), k)}

\* C16: after move_s3_path every object that belonged to the source is at its
\* destination key and no longer at the source; objects that only share the
\* source key as a string prefix are neither copied nor deleted; nothing is
\* deleted at the source when a copy failed.
C16_MovedExactlyTheSource ==
    (call.called /\ call.op = "move_s3_path") =>
        /\ ~call.raised =>
            /\ \A k \in Belonged :
                LET dk == DestinationKey(call.src, call.dst, k)
                IN  /\ dk \in DOMAIN bucket
                    /\ bucket[dk].content = call.before[k].content
                    /\ k \notin DOMAIN bucket
            /\ \A k \in (DOMAIN call.before \cup DOMAIN bucket) \ Belonged :
                \/ \E j \in Belonged : k = DestinationKey(call.src, call.dst, j)
                \/ ObjectAt(bucket, k) = ObjectAt(call.before, k)
        /\ call.raised => DOMAIN call.before \subseteq DOMAIN bucket
        /\ \A k \in DOMAIN call.before \ DOMAIN bucket : ~call.raised /\ k # call.fail_at

\* C16 witness: the object at the source key and an object in its folder are
\* moved, an object whose key continues the source key as a string stays
C16_Witness ==
    /\ call.called /\ call.op = "move_s3_path" /\ ~call.raised
    /\ call.src = <<"s">> /\ call.dst = <<"d">>
    /\ DOMAIN call.before = {<<"s">>, <<"s", "x">>, <<"s", "/", "a">>}
    /\ DOMAIN bucket = {<<"d">>, <<"s", "x">>, <<"d", "/", "a">>}

(***************************************************************************)
(* Claims about data sync                                                  *)
(***************************************************************************)
\* the world the source, or the destination, of the last sync_data call is in
\* (the bucket or the local file system), as it was before the call and as it
\* is now
SourceBefore == IF op.direction \in {"s3_to_s3", "s3_to_local"}
                THEN op.bucket_before ELSE op.disk_before
SourceNow == IF op.direction \in {"s3_to_s3", "s3_to_local"} THEN bucket ELSE disk
DestinationBefore == IF op.direction \in {"s3_to_s3", "local_to_s3"}
                     THEN op.bucket_before ELSE op.disk_before
DestinationNow == IF op.direction \in {"s3_to_s3", "local_to_s3"} THEN bucket ELSE disk

\* the paths of a world at a path or in the folder below it
AtOrBelow(w, path) == {k \in DOMAIN w : k = path \/ IsPrefix(path \o <<"/">>, k)}

\* C17: in each of the four directions of sync_data, when nothing is at or
\* below the source path, the call raises FileNotFoundError with
\* fail_if_missing=True and returns with fail_if_missing=False, and nothing is
\* created, modified or deleted: the bucket and the local files are as before.
C17_MissingSourceLeavesDestination ==
    op.called /\ ~op.again /\ AtOrBelow(SourceBefore, op.src) = {} =>
        /\ op.outcome = IF op.fail_if_missing THEN "FileNotFoundError" ELSE "returned"
        /\ bucket = op.bucket_before
        /\ disk = op.disk_before

\* a local to local sync of a missing source returned, the destination
\* holding a file older than the start of the sync
C17_Witness ==
    /\ op.called /\ ~op.again /\ AtOrBelow(SourceBefore, op.src) = {}
    /\ op.direction = "local_to_local" /\ ~op.fail_if_missing /\ op.outcome = "returned"
    /\ \E k \in AtOrBelow(disk, op.dst) : Later(op.start_time, disk[k].last_modified)

\* C18: with retain_source_data=False, after a sync from local to local,
\* local to S3 or S3 to S3 that returned, nothing is left at or below the
\* source path and the destination holds the content of every source file or
\* object at its corresponding path; an S3 to local sync deletes no source
\* object whatever the flag; and when the transfer raised, the source is as
\* it was.
C18_SourceRemovedOnlyAfterTransfer ==
    op.called /\ ~op.again /\ AtOrBelow(SourceBefore, op.src) # {} =>
        /\ ~op.retain_source_data /\ op.outcome = "returned"
           /\ op.direction # "s3_to_local" =>
               /\ AtOrBelow(SourceNow, op.src) = {}
               /\ \A k \in AtOrBelow(SourceBefore, op.src) :
                      LET dk == DestinationKey(op.src, op.dst, k)
                      IN  /\ dk \in DOMAIN DestinationNow
                          /\ DestinationNow[dk].content = SourceBefore[k].content
        /\ op.direction = "s3_to_local" =>
               \A k \in AtOrBelow(SourceBefore, op.src) :
                   k \in DOMAIN bucket /\ bucket[k] = op.bucket_before[k]
        /\ op.outcome = "raised" =>
               \A k \in AtOrBelow(SourceBefore, op.src) :
                   k \in DOMAIN SourceNow /\ SourceNow[k] = SourceBefore[k]

\* the paths at or below a path of a world, relative to that path
RelativeTo(w, path) == {SubSeq(k, Len(path) + 1, Len(k)) : k \in AtOrBelow(w, path)}

\* every local file at or below the destination was modified at or after the
\* start of the sync
DestinationFresh ==
    \A k \in AtOrBelow(disk, op.dst) : ~Later(op.start_time, disk[k].last_modified)

\* refresh_local_path__mtime changes nothing but modification times, which it
\* sets to min_mtime, and changes no file whose time is min_mtime or later
RefreshOnlyRaises ==
    \A path \in DataPaths, min_mtime \in {Time(sec, 0) : sec \in 0..MaxSec} :
        LET after == RefreshLocalPathMtime(disk, path, min_mtime)
        IN  /\ DOMAIN after = DOMAIN disk
            /\ \A k \in DOMAIN disk :
                /\ ~Later(min_mtime, disk[k].last_modified) => after[k] = disk[k]
                /\ after[k] # disk[k] =>
                       after[k] = [disk[k] EXCEPT !.last_modified = min_mtime]

\* after the second of two S3 to local syncs of a source that holds something,
\* the destination holds what the source holds, path by path
SecondSyncEqual ==
    op.called /\ op.again /\ op.direction = "s3_to_local"
    /\ AtOrBelow(bucket, op.src) # {} =>
        /\ RelativeTo(disk, op.dst) = RelativeTo(bucket, op.src)
        /\ \A k \in AtOrBelow(bucket, op.src) :
               disk[DestinationKey(op.src, op.dst, k)].content = bucket[k].content

UnderPath == {k \in DOMAIN sc.before : IsPrefix(sc.s3_path, k)}

\* the objects under the path that waited for a restore, in any archive class
\* or in an archive class other than the target
AwaitingRestore ==
    {k \in UnderPath : /\ sc.before[k].storage_class = "GLACIER"
                       /\ sc.before[k].restore \in {"NOT_STARTED", "IN_PROGRESS"}}
AwaitingRestoreForTarget == {k \in AwaitingRestore : sc.before[k].storage_class # sc.target}

\* True is returned only if every object under the path had the target class
\* or was given it by a transition that did not fail
TrueOnlyIfAllAtTarget ==
    sc.called /\ sc.result = "True" =>
        \A k \in UnderPath :
            \/ sc.before[k].storage_class = sc.target
            \/ k \notin sc.failed_transitions /\ store[k].storage_class = sc.target

\* an unsupported target raises RuntimeError and no object is modified
UnsupportedTargetRaises ==
    sc.called /\ sc.target \notin {"STANDARD", "GLACIER"} =>
        sc.result = "RuntimeError" /\ store = sc.before

\* C20 (as stated): update_s3_storage_class returns True only if every object
\* under the path already had the target class or had its transition issued
\* successfully; it returns False whenever some object under the path is in an
\* archive class with a restore not started or in progress, or some transition
\* failed; an unsupported target raises RuntimeError with nothing modified.
C20_StorageClassUpdate ==
    /\ TrueOnlyIfAllAtTarget
    /\ sc.called /\ sc.target \in {"STANDARD", "GLACIER"}
       /\ (AwaitingRestore # {} \/ sc.failed_transitions # {}) => sc.result = "False"
    /\ UnsupportedTargetRaises

\* C20 (amended): False is returned whenever some object under the path is in
\* an archive class other than the target with a restore not started or in
\* progress, or some transition failed, unless RuntimeError is raised for an
\* object whose storage class supports no transition.
C20_StorageClassUpdateOrRaise ==
    /\ TrueOnlyIfAllAtTarget
    /\ sc.called /\ sc.target \in {"STANDARD", "GLACIER"}
       /\ (AwaitingRestoreForTarget # {} \/ sc.failed_transitions # {}) =>
           sc.result \in {"False", "RuntimeError"}
    /\ sc.called /\ sc.result = "RuntimeError" /\ sc.target \in {"STANDARD", "GLACIER"} =>
           \E k \in UnderPath : sc.before[k].storage_class = "REDUCED_REDUNDANCY"
    /\ UnsupportedTargetRaises

\* False was returned for a path with an archived object to restore, another
\* object of the path being given the target class
C20_Witness ==
    /\ sc.called /\ sc.result = "False" /\ sc.failed_transitions = {}
    /\ AwaitingRestoreForTarget # {}
    /\ \E k \in UnderPath : /\ sc.before[k].storage_class # sc.target
                            /\ store[k].storage_class = sc.target

(***************************************************************************)
(* Claims about the local ETag                                             *)
(***************************************************************************)
\* the chunk size of the last get_local_etag call; files of the model keep
\* the default chunk size when none is given
ChunkSizeUsed ==
    IF etag.chunk_size_bytes.has THEN etag.chunk_size_bytes.val
    ELSE DefaultChunkSizeBytes
NumChunks == CeilDiv(Len(etag.content), ChunkSizeUsed)
\* the i-th chunk of the file, in file order
ChunkOf(i) ==
    SubSeq(etag.content, (i - 1) * ChunkSizeUsed + 1,
           Min(i * ChunkSizeUsed, Len(etag.content)))

\* C9: with n = ceil(file_size / chunk_size) chunks, get_local_etag is the
\* quoted hash of empty content for an empty file, the quoted hash of the
\* whole content without a count for n = 1, and for n > 1 the quoted hash of
\* the n chunk hashes joined in file order, followed by -n.
C9_ETagFormat ==
    etag.called =>
        etag.result =
            IF NumChunks = 0 THEN [hex |-> md5(<<>>), parts |-> 0]
            ELSE IF NumChunks = 1 THEN [hex |-> md5(etag.content), parts |-> 0]
            ELSE [hex |-> md5(JoinDigests([i \in 1..NumChunks |-> md5(ChunkOf(i))])),
                  parts |-> NumChunks]

\* C9 witness: a file of several chunks whose last chunk is short
C9_Witness ==
    /\ etag.called /\ etag.chunk_size_bytes.has
    /\ NumChunks >= 2
    /\ Len(etag.content) % ChunkSizeUsed # 0
    /\ etag.result.parts = NumChunks

\* the chunk size determine_chunk_size returns: default * 2^k for the least
\* k with at most 10000 chunks, the default itself up to 10000 * default bytes
DcsResultRight ==
    dcs.pc = "done" =>
        /\ \E k \in 0..(MaxDoublings + 1) :
            /\ dcs.chunk = dcs.default * Pow2(k)
            /\ CeilDiv(dcs.file_size, dcs.chunk) <= 10000
            /\ \A j \in 0..(k - 1) : CeilDiv(dcs.file_size, dcs.default * Pow2(j)) > 10000
        /\ CeilDiv(dcs.file_size, 10000) <= dcs.default => dcs.chunk = dcs.default

\* C10: determine_chunk_size returns default * 2^k for the smallest k >= 0 with
\* ceil(file_size / (default * 2^k)) <= 10000, keeps the default for a file of
\* at most 10000 * default bytes, and its doubling loop terminates.
C10_ChunkSizeDoubling ==
    /\ []DcsResultRight
    /\ (dcs.pc = "loop") ~> (dcs.pc = "done")

\* C10 witness: a file for which the chunk size was doubled twice
C10_Witness ==
    /\ dcs.pc = "done"
    /\ dcs.chunk = 4 * dcs.default
    /\ CeilDiv(dcs.file_size, 2 * dcs.default) > 10000

(***************************************************************************)
(* Claims about process_transfer_requests                                  *)
(***************************************************************************)
\* the copy of request i raises: there is no object at its source (the
\* requests copy to other keys than they copy from, so the sources are as
\* they were before the call)
TransferRaises(i) == ~IsObject(call.before, call.requests[i].source_path)

\* the requests whose transfer raises
Failing == {i \in 1..Len(call.requests) : TransferRaises(i)}

\* the first of them
FirstFailing == CHOOSE i \in Failing : \A j \in Failing : i <= j

\* C21: with suppress_errors=True process_transfer_requests returns one
\* response per request, in the order of the requests, response i being that
\* of request i and failed exactly when transfer i raised, and the requests
\* after a failed one are processed (the destination of a forced copy holds
\* the content of its source). With suppress_errors=False the call raises at
\* the first failing transfer and no later request is processed: the only
\* keys written are destinations of the requests before it.
C21_ResponsePerRequest ==
    (call.called /\ call.op = "process_transfer_requests") =>
        /\ call.suppress_errors =>
            /\ ~call.raised
            /\ Len(call.responses) = Len(call.requests)
            /\ \A i \in 1..Len(call.requests) :
                /\ call.responses[i].request = call.requests[i]
                /\ call.responses[i].failed <=> TransferRaises(i)
                /\ ~TransferRaises(i) => IsObject(bucket, call.requests[i].destination_path)
                /\ (/\ ~TransferRaises(i)
                    /\ call.requests[i].force
                    /\ \A j \in (i + 1)..Len(call.requests) :
                           call.requests[j].destination_path
                               # call.requests[i].destination_path)
                   => bucket[call.requests[i].destination_path].content
                          = call.before[call.requests[i].source_path].content
        /\ ~call.suppress_errors =>
            /\ call.raised <=> Failing # {}
            /\ ~call.raised => Len(call.responses) = Len(call.requests)
            /\ call.raised =>
                /\ Len(call.responses) = FirstFailing - 1
                /\ \A k \in DOMAIN bucket \cup DOMAIN call.before :
                       ObjectAt(bucket, k) # ObjectAt(call.before, k)
                           => \E i \in 1..(FirstFailing - 1) :
                                  call.requests[i].destination_path = k

\* errors suppressed, the first of two copies fails and the second is made
C21_Witness ==
    /\ call.called /\ call.op = "process_transfer_requests"
    /\ call.suppress_errors
    /\ Len(call.requests) = 2
    /\ TransferRaises(1) /\ ~TransferRaises(2)
    /\ call.responses[1].failed /\ ~call.responses[2].failed
    /\ ~IsObject(call.before, call.requests[2].destination_path)
    /\ IsObject(bucket, call.requests[2].destination_path)

(***************************************************************************)
(* Claims about the shallowest cut                                         *)
(***************************************************************************)
\* the proper ancestors of node n, the root among them
ProperAncestors(n) == {SubSeq(n, 1, k) : k \in 0..(Len(n) - 1)}

\* C22: no node partition returns has a compliant proper ancestor: every
\* proper ancestor of a returned node, up to and including the root, has
\* children and violates at least one of the limits given.
C22_NoCompliantProperAncestor ==
    part.called =>
        \A n \in Result : \A a \in ProperAncestors(n) :
            /\ a \in DOMAIN tree
            /\ ~IsLeaf(tree, a)
            /\ ~Compliant(a)

\* C22 witness: a node two levels below the root is returned, beside a
\* compliant directory that is returned whole
C22_Witness ==
    /\ part.called
    /\ \E n \in Result : Depth(n) = MaxDepth /\ \A a \in ProperAncestors(n) : ~Compliant(a)
    /\ \E d \in Result : ~IsLeaf(tree, d) /\ Compliant(d) /\ d # Root

(***************************************************************************)
(* Claims about the digests should_sync computes                           *)
(***************************************************************************)
\* C23: should_sync computes the digest of a local file only after the
\* existence, size and modification time checks have all failed to decide,
\* and only when size_only is False: no digest is computed when the
\* destination is missing, when the sizes differ, when the source is newer or
\* when size_only is True (nor when the call raises for a missing source).
C23_DigestOnlyWhenUndecided ==
    (sync.called /\ sync.digests # {}) =>
        /\ destination.exists /\ source.exists
        /\ SizeBytes(source) = SizeBytes(destination)
        /\ ~Later(TruncateToSecond(source.last_modified),
                  TruncateToSecond(destination.last_modified))
        /\ ~sync.size_only
        /\ sync.outcome \in {"True", "False"}
        /\ \A side \in sync.digests :
               (IF side = "source" THEN source ELSE destination).kind = "local"

\* C23 witness: a local file of the size of the object it is compared with,
\* not newer, is digested; the contents differ
C23_Witness ==
    /\ sync.called /\ ~sync.size_only
    /\ source.kind = "local" /\ destination.kind = "s3"
    /\ sync.digests = {"source"}
    /\ sync.outcome = "True"

(***************************************************************************)
(* Claims about reading a local file                                       *)
(***************************************************************************)
\* the failures after which get_local_etag was tried again
Retried == {read.failures[i].error : i \in 1..Min(Len(read.failures), read.tries - 1)}

\* C24: while a local digest is computed only transient errors of the
\* operating system are retried, and for a bounded number of tries; every
\* other error, a missing or unreadable file included, is raised to the
\* caller without a retry.
C24_OnlyTransientRetried ==
    /\ read.tries <= MaxTries
    /\ Retried \subseteq {"OSError"}
    /\ read.pc = "failed" => \/ read.tries = MaxTries
                             \/ read.failures[Len(read.failures)].error # "OSError"

\* C25: a try of get_local_etag holds at most one open file handle, reads the
\* file from the front to the back, each read starting where the one before
\* ended, and has closed the handle when it ends, by returning or by raising
\* during a read; no handle is open between the tries or after them.
C25_OneHandleReleased ==
    /\ read.handles \in {0, 1}
    /\ read.pc # "read" => read.handles = 0
    /\ \A i \in 1..Len(read.reads) :
        /\ read.reads[i].from = (IF i = 1 THEN 0 ELSE read.reads[i - 1].to)
        /\ read.reads[i].to = Min(read.reads[i].from + read.chunk_size_bytes, read.size)
    /\ read.pc = "returned" =>
        /\ Len(read.reads) = CeilDiv(read.size, read.chunk_size_bytes) + 1
        /\ read.reads[Len(read.reads)].to = read.size

\* C25 witness: a try raised during a read, the next one read a file of
\* several chunks to its end and returned
C25_Witness ==
    /\ read.pc = "returned"
    /\ read.tries = 2
    /\ read.failures[1].at = "read"
    /\ Len(read.reads) >= 3
    /\ read.handles = 0

(***************************************************************************)
(* Claims about restores and repeated storage class updates                *)
(***************************************************************************)
\* the objects under the path of the calls, now
UnderPathNow == ListS3Paths(store, sc.s3_path)

\* the last call returned True and every object under the path has the
\* target storage class
UpdateDone ==
    /\ sc.result = "True"
    /\ \A k \in UnderPathNow : store[k].storage_class = sc.target

\* what a call does with an archived object, by the state of its restore: it
\* requests the restore of no object but an archived one whose restore has
\* not started, and of each of these that has another class than the target;
\* it leaves an object alone whose restore is in progress; it transitions an
\* object whose restore has finished, unless the transition fails
RestoreSteps ==
    (sc.called /\ sc.result \in {"True", "False"}) =>
        /\ \A k \in sc.paths_to_restore :
            /\ sc.before[k].storage_class \in Archive
            /\ sc.before[k].restore = "NOT_STARTED"
        /\ \A k \in ListS3Paths(sc.before, sc.s3_path) :
            LET o == sc.before[k]
            IN  (o.storage_class \in Archive /\ o.storage_class # sc.target) =>
                    /\ o.restore = "NOT_STARTED" => k \in sc.paths_to_restore
                    /\ o.restore = "IN_PROGRESS" => k \notin sc.paths_to_restore
                    /\ o.restore = "FINISHED" =>
                        /\ k \notin sc.paths_to_restore
                        /\ k # sc.fail_at => store[k].storage_class = sc.target

\* C26 as stated: calling update_s3_storage_class again each time it returns
\* False eventually returns True with every object under the path in the
\* target storage class, when restores finish and transitions succeed in the
\* end; an archived object goes from restore not started (requested by the
\* call) through in progress (the call waits) to finished (the call issues
\* the transition), and no restore is requested for an object whose restore
\* is in progress or finished.
C26_EventuallyTrue == (sc.called ~> UpdateDone) /\ []RestoreSteps

\* C26, amended: the same, unless a call raises RuntimeError for a storage
\* class that supports no transition.
C26_EventuallyTrueOrRaises ==
    (sc.called ~> (UpdateDone \/ sc.result = "RuntimeError")) /\ []RestoreSteps

\* C26 witness: a later call returned True, an archived object whose restore
\* the first call had to request being in the target class
C26_Witness ==
    /\ sc.called /\ sc.calls = 2
    /\ UpdateDone
    /\ sc.target = "STANDARD"
    /\ \E k \in UnderPathNow : k \in DOMAIN sc.before /\ sc.before[k].storage_class \in Archive
    /\ Cardinality(UnderPathNow) = MaxStored

(***************************************************************************)
(* Claims about query_waiter                                               *)
(***************************************************************************)
\* what query_waiter has done when it returns, and while it goes on
WaiterReturns ==
    /\ waiter.pc = "done" =>
        /\ waiter.polls >= 1
        /\ waiter.returned \in {"SUCCEEDED", "FAILED", "CANCELLED", "TIMEOUT"}
        /\ waiter.returned # "TIMEOUT" => waiter.returned = waiter.state
        /\ waiter.returned = "TIMEOUT" =>
            /\ waiter.state \notin {"SUCCEEDED", "FAILED", "CANCELLED"}
            /\ waiter.elapsed > waiter.timeout * SleepsPerSecond
    /\ waiter.pc \in {"poll", "sleep"} =>
        /\ waiter.state \notin {"SUCCEEDED", "FAILED", "CANCELLED"}
        /\ waiter.elapsed <= waiter.timeout * SleepsPerSecond

\* C27: query_waiter terminates when every poll returns: it polls at least
\* once, returns the state as soon as a poll observes SUCCEEDED, FAILED or
\* CANCELLED (it goes on only after a poll that observed none of them, and
\* only while the time is not up), returns TIMEOUT otherwise once the time
\* that has passed exceeds the timeout, and never returns a state such as
\* QUEUED or RUNNING.
C27_WaiterTerminates == (waiter.pc # "idle" ~> waiter.pc = "done") /\ []WaiterReturns

\* C27 witness: a query seen RUNNING several times, the time is up
C27_Witness ==
    /\ waiter.pc = "done"
    /\ waiter.returned = "TIMEOUT"
    /\ waiter.state = "RUNNING"
    /\ waiter.polls >= 3
    /\ waiter.timeout = MaxTimeout

(***************************************************************************)
(* Claims about what a sync deletes                                        *)
(***************************************************************************)
\* the objects sync_paths deleted
DeletedBySync == DOMAIN call.before \ DOMAIN bucket

\* C28: sync_paths with delete=True and an S3 destination deletes only
\* objects at the destination key or under the destination key as a folder:
\* an object whose key only starts with the destination key, as a string, is
\* not deleted.
C28_DeletesOnlyUnderDestination ==
    (call.called /\ call.op = "sync_paths" /\ call.delete) =>
        \A k \in DeletedBySync : k = call.dst \/ IsPrefix(WithFolderSuffix(call.dst), k)

\* C29: sync_s3_to_s3 with retain_source_data=False deletes only source
\* objects that it transferred to the destination: an object of the bucket
\* that was not part of the sync, such as one whose key only starts with the
\* source key as a string, still exists after the call.
C29_DeletesOnlyTransferred ==
    (op.called /\ ~op.again /\ op.direction = "s3_to_s3" /\ ~op.retain_source_data) =>
        \A k \in DOMAIN op.bucket_before \ AtOrBelow(op.bucket_before, op.src) :
            IsPrefix(op.src, k) => k \in DOMAIN bucket

(***************************************************************************)
(* Claims about the path lock                                              *)
(***************************************************************************)
\* C30: with require_lock=True sync_s3_to_local writes to the destination
\* (file transfer, deletion of extra files, refresh of the modification
\* times) only while it holds the path lock of the destination, and has
\* released the lock when the transfer has returned or raised; of two such
\* calls for one destination neither writes while the other holds the lock,
\* and a caller that cannot take the lock retries instead of transferring.
C30_WritesOnlyUnderLock ==
    /\ \A w \in lock.writes : w.holder = w.by
    /\ \A p \in 1..2 :
        /\ lock.pc[p] \in {"sync_paths", "leave"} => lock.holder = p
        /\ lock.pc[p] \in {"idle", "acquire", "refresh", "returned", "raised"}
               => lock.holder # p

====
